---------------------------- MODULE Spec2Model ----------------------------
(***************************************************************************)
(* A model of the CustomCuts native messaging host (src/native_host).      *)
(*                                                                         *)
(*   Spec        the host process: the main read loop, the engine loader   *)
(*               threads, the transcription worker thread and the framed   *)
(*               outbound channel (whisper_host.py).                       *)
(*   SpecStitch  the three streaming stitchers fed chunk after chunk       *)
(*               (faster_whisper_engine.py, whisper_engine.py,             *)
(*               parakeet_engine.py).                                      *)
(*   SpecDetect  the PatternDetector confirmation state machine            *)
(*               (pattern_engine.py).                                      *)
(*   SpecPattern the pattern half of the host: init_patterns,              *)
(*               learn_pattern, detect, reset_patterns and the pattern     *)
(*               engine loader thread (whisper_host.py).                   *)
(*                                                                         *)
(* Times are integers in tenths of a second (0.3 s is 3, 2.0 s is 20).     *)
(* A text is the sequence of its whitespace separated words.               *)
(***************************************************************************)
EXTENDS Integers, Sequences, FiniteSets, TLC

VARIABLES
    \* ---- host (whisper_host.py) ----
    pc,              \* position of the main thread and of the worker thread
    env,             \* the envelope each thread is handing to send_native_message
    lock,            \* _stdout_lock: "free" or the thread holding it
    sys_stdout,      \* sys.stdout: 0 is the real stream, i the StringIO of loader i
    outbound,        \* what has been written to the real stream, in order
    loader,          \* the loader threads started by init: pc, old_stdout, kind read
    engine_type,     \* _engine_type
    init_cfg,        \* _init_model / _init_device: the init that wrote them last
    init_thread,     \* _init_thread: 0 is None
    init_error,      \* _init_error: 0 is None, i the error of loader i
    speech_engine,   \* speech_engine: 0 is None, else the engine object
    streaming_engine,\* streaming_engine: 0 is None, i the stitcher built by loader i
    stitch,          \* the state of each stitcher object
    queue,           \* _transcribe_queue
    w,               \* the worker's local variables
    m,               \* the main thread's local variables
    nread,           \* messages read so far
    task,            \* history: what happened to each transcribe task
    resetDone,       \* history: a reset was handled since the worker last began a chunk
    \* ---- stitchers fed sequentially ----
    sst,             \* the stitcher object of the session
    semitted,        \* history: segments emitted in this session, in order
    slog,            \* history: the per-segment decisions of the last chunk
    sstarts,         \* history: chunk_start_time of the chunks of this session
    schunks,         \* chunks processed so far
    \* ---- pattern detector ----
    patterns,        \* PatternDetector.patterns
    consecutive_matches, \* PatternDetector.consecutive_matches
    run,             \* history: per pattern, first timestamp of its current unbroken run
    lastDetections,  \* the list the last process_chunk returned
    lastTimestamp,   \* timestamp of the last processed chunk
    dchunks,         \* chunks processed so far
    dcall,           \* the last process_chunk call: ids it stopped tracking, engine calls it made
    \* ---- pattern half of the host (whisper_host.py) ----
    pattern_engine,      \* pattern_engine: 0 is None
    pattern_detector,    \* pattern_detector: FALSE is None
    pattern_init_thread, \* _pattern_init_thread: 0 is None
    pattern_init_error,  \* _pattern_init_error: 0 is None
    ploader,             \* the pattern loader thread: pc, old_stdout
    \* ---- the inbound side (read_native_message, handle_message, main) ----
    rd,                  \* the last frame read, what the read consumed and returned
    \* ---- PatternEngine.match_fingerprint ----
    fpm,                 \* the arguments of the last call and its result
    \* ---- PatternEngine.quantize_embedding / dequantize_embedding ----
    qe,                  \* the last embedding, its quantized and dequantized form
    \* ---- handle_learn_pattern ----
    lp                   \* the last learn_pattern request, what the engine gave, the reply

hostVars == << pc, env, lock, sys_stdout, outbound, loader, engine_type,
               init_cfg, init_thread, init_error, speech_engine, streaming_engine,
               stitch, queue, w, m, nread, task, resetDone >>
stitchVars == << sst, semitted, slog, sstarts, schunks >>
detVars == << patterns, consecutive_matches, run, lastDetections, lastTimestamp, dchunks,
             dcall >>
patVars == << pattern_engine, pattern_detector, pattern_init_thread, pattern_init_error,
              ploader >>
\* the host variables the pattern half leaves alone
hostOnlyVars == << loader, engine_type, init_cfg, init_thread, init_error, speech_engine,
                   streaming_engine, stitch, queue, w, task, resetDone >>
extraVars == << rd, fpm, qe, lp >>
vars == << hostVars, stitchVars, detVars, patVars, extraVars >>

-----------------------------------------------------------------------------
(* Bounds of the model *)

\* the size of one run of the host: the messages the main loop reads plus the
\* loader threads they start (an init message counts twice)
MaxWork == 5

\* so many init messages fit in one run
MaxInits == MaxWork \div 2

\* chunks fed to a stitcher in one run
MaxChunks == 2

\* chunks fed to a PatternDetector in one run
MaxDetChunks == 3

\* messages the main loop reads in one run of the pattern half
MaxPatMsgs == 4

\* frames the main loop reads in one run of the inbound side
MaxReads == 2

\* program constants, in tenths of a second
Tolerance == 3
OverlapWhisper == 20
OverlapParakeet == 10
MinMatchDuration == 20
\* the largest message length read_native_message accepts: 1024 * 1024
MaxMessageLength == 1048576

Min(a, b) == IF a <= b THEN a ELSE b

-----------------------------------------------------------------------------
(* The streaming stitchers *)

EngineKinds == {"faster-whisper", "whisper", "parakeet"}

\* str.lower() on one word
Lower(word) ==
    CASE word = "The" -> "the"
      [] word = "Cat" -> "cat"
      [] OTHER -> word

LowerText(text) == [i \in DOMAIN text |-> Lower(text[i])]

\* text_words[:k]
FirstWords(text, k) == SubSeq(text, 1, k)

\* last_words[-k:]
LastWords(text, k) == SubSeq(text, Len(text) - k + 1, Len(text))

\* the word count _is_duplicate compares: min(3, len(text_words), len(last_words))
CheckWords(text_words, last_words) == Min(3, Min(Len(text_words), Len(last_words)))

\* StreamingFasterWhisper._is_duplicate, with self.last_text passed as last_text
IsDuplicate(last_text, text) ==
    IF last_text = <<>> THEN FALSE
    ELSE LET text_words == LowerText(text)
             last_words == LowerText(last_text)
         IN IF text_words = last_words THEN TRUE
            ELSE IF Len(text_words) < 2 \/ Len(last_words) < 2 THEN FALSE
            ELSE LET check_words == CheckWords(text_words, last_words)
                 IN FirstWords(text_words, check_words) = LastWords(last_words, check_words)

\* StreamingFasterWhisper.__init__ / StreamingWhisper.__init__ / StreamingParakeet.__init__
NewStitcher(kind) ==
    [kind |-> kind, pending_audio |-> 0, last_end_time |-> 0, last_text |-> <<>>]

\* the state of a stitcher slot no loader has filled yet
NoStitcher == [kind |-> "none", pending_audio |-> 0, last_end_time |-> 0, last_text |-> <<>>]

\* A stitcher as a fresh session sees it
Fresh(st) == st.pending_audio = 0 /\ st.last_end_time = 0 /\ st.last_text = <<>>

\* the time filter of StreamingFasterWhisper.process_chunk
FWPassesTime(adjusted_end, last_end_time) == adjusted_end > last_end_time + Tolerance

\* an accepted segment keeps the start the engine gave it
FWStartUnclamped(adjusted_start, last_end_time) == adjusted_start

\* the start StreamingFasterWhisper.process_chunk gives an accepted segment
FWStart(adjusted_start, last_end_time) ==
    IF adjusted_start < last_end_time THEN last_end_time ELSE adjusted_start

\* One iteration of the segment loop of StreamingFasterWhisper.process_chunk:
\* the stitcher after it and the segments it appended (none or one).
FWSeg(st, chunk_start_time, seg) ==
    LET adjusted_start == chunk_start_time + seg.start
        adjusted_end == chunk_start_time + seg.end
    IN IF /\ FWPassesTime(adjusted_end, st.last_end_time)
          /\ seg.text # <<>>
          /\ ~IsDuplicate(st.last_text, seg.text)
       THEN [st |-> [st EXCEPT !.last_end_time = adjusted_end, !.last_text = seg.text],
             out |-> << [start |-> FWStart(adjusted_start, st.last_end_time),
                         end |-> adjusted_end, text |-> seg.text] >>]
       ELSE [st |-> st, out |-> <<>>]

\* a stitcher that keeps every segment
WPassesAll(adjusted_start, last_end_time) == TRUE

\* the filter of StreamingWhisper.process_chunk
WPasses(adjusted_start, last_end_time) == adjusted_start >= last_end_time

\* One iteration of the segment loop of StreamingWhisper.process_chunk
WSeg(st, effective_start_time, seg) ==
    LET adjusted_start == effective_start_time + seg.start
        adjusted_end == effective_start_time + seg.end
    IN IF WPasses(adjusted_start, st.last_end_time)
       THEN [st |-> [st EXCEPT !.last_end_time = adjusted_end],
             out |-> << [start |-> adjusted_start, end |-> adjusted_end, text |-> seg.text] >>]
       ELSE [st |-> st, out |-> <<>>]

\* the filter of StreamingParakeet.process_chunk
PPasses(adjusted_start, last_end_time) == adjusted_start >= last_end_time

\* One iteration of the segment loop of StreamingParakeet.process_chunk
PSeg(st, effective_start_time, seg) ==
    LET adjusted_start == effective_start_time + seg.start
        adjusted_end == effective_start_time + seg.end
    IN IF PPasses(adjusted_start, st.last_end_time)
       THEN [st |-> [st EXCEPT !.last_end_time = adjusted_end],
             out |-> << [start |-> adjusted_start, end |-> adjusted_end, text |-> seg.text] >>]
       ELSE [st |-> st, out |-> <<>>]

\* One iteration of the segment loop of whichever class the stitcher is
SegStep(st, base, seg) ==
    CASE st.kind = "faster-whisper" -> FWSeg(st, base, seg)
      [] st.kind = "parakeet" -> PSeg(st, base, seg)
      [] OTHER -> WSeg(st, base, seg)

\* StreamingWhisper.process_chunk up to the engine call: the effective start time
\* of the combined buffer, and the new audio kept as pending_audio.
WBegin(st, chunk_start_time, audio_len) ==
    [base |-> IF st.pending_audio > 0 THEN chunk_start_time - OverlapWhisper
              ELSE chunk_start_time,
     st |-> [st EXCEPT !.pending_audio = audio_len]]

\* StreamingParakeet.process_chunk up to the engine call
PBegin(st, chunk_start_time, audio_len) ==
    [base |-> IF st.pending_audio > 0 THEN chunk_start_time - OverlapParakeet
              ELSE chunk_start_time,
     st |-> [st EXCEPT !.pending_audio = audio_len]]

\* process_chunk up to the engine call, for whichever class the stitcher is
\* (StreamingFasterWhisper submits the chunk as it is)
Begin(st, chunk_start_time, audio_len) ==
    CASE st.kind = "faster-whisper" -> [base |-> chunk_start_time, st |-> st]
      [] st.kind = "parakeet" -> PBegin(st, chunk_start_time, audio_len)
      [] OTHER -> WBegin(st, chunk_start_time, audio_len)

\* The segment loop of process_chunk over the engine's segments: the stitcher
\* after it, the list returned, and the decision taken for each raw segment.
RECURSIVE SegLoop(_, _, _)
SegLoop(st, base, segs) ==
    IF segs = <<>> THEN [st |-> st, out |-> <<>>, log |-> <<>>]
    ELSE LET one == SegStep(st, base, Head(segs))
             rest == SegLoop(one.st, base, Tail(segs))
         IN [st |-> rest.st,
             out |-> one.out \o rest.out,
             log |-> << [prev |-> st.last_text, last_end |-> st.last_end_time,
                         base |-> base, raw |-> Head(segs), out |-> one.out] >>
                     \o rest.log]

\* StreamingFasterWhisper.reset, first and second assignment
FWReset1(st) == [st EXCEPT !.last_end_time = 0]
FWReset2(st) == [st EXCEPT !.last_text = <<>>]

\* StreamingWhisper.reset, first and second assignment
WReset1(st) == [st EXCEPT !.pending_audio = 0]
WReset2(st) == [st EXCEPT !.last_end_time = 0]

\* StreamingParakeet.reset, first and second assignment
PReset1(st) == [st EXCEPT !.pending_audio = 0]
PReset2(st) == [st EXCEPT !.last_end_time = 0]

\* the first assignment of reset() of whichever class the stitcher is
Reset1(st) ==
    CASE st.kind = "faster-whisper" -> FWReset1(st)
      [] st.kind = "parakeet" -> PReset1(st)
      [] OTHER -> WReset1(st)

\* the second assignment of reset()
Reset2(st) ==
    CASE st.kind = "faster-whisper" -> FWReset2(st)
      [] st.kind = "parakeet" -> PReset2(st)
      [] OTHER -> WReset2(st)

\* reset() as a whole
ResetStitcher(st) == Reset2(Reset1(st))

-----------------------------------------------------------------------------
(* The host process: whisper_host.py *)

Threads == {"main", "worker"}
Loaders == 1..MaxInits

\* the engine kinds an init message names (any other name builds a WhisperEngine,
\* as "whisper" does; a ParakeetEngine is handled like the other two by the host)
HostKinds == {"faster-whisper", "whisper"}

\* the timestamp a transcribe message carries, its audio as a length, and what
\* the engine returns for a chunk
HostTimes == {0}
HostAudio == 1
HostSeg == [start |-> 0, end |-> 10, text |-> <<"a">>]
HostResults == { <<>>, <<HostSeg>> }

Envelope(type, id, msg) == [type |-> type, id |-> id, msg |-> msg]
NoEnv == Envelope("none", 0, "")
\* what an engine constructor prints to sys.stdout
Noise == Envelope("noise", 0, "")
NoTask == [id |-> 0, ts |-> 0]

\* the types of the envelopes the worker sends for a task
ResultTypes == {"transcription", "error"}

\* threading.Thread.is_alive() of loader thread i
IsAlive(i) == loader[i].pc # "done"

\* loader threads started so far
Started == {i \in Loaders : loader[i].pc # "unstarted"}

\* the process is running: the main loop has not returned
Running == pc["main"] # "exit"

\* the main loop is at read_native_message and the run has room for a message
\* that starts so many threads
CanRead(threads) ==
    /\ pc["main"] = "read"
    /\ nread + Cardinality(Started) + 1 + threads <= MaxWork

\* a queue that hands out the newest task first
DequeueNewest(q) == [item |-> q[Len(q)], rest |-> SubSeq(q, 1, Len(q) - 1)]

\* _transcribe_queue.get(): the task taken and the queue left
Dequeue(q) == [item |-> Head(q), rest |-> Tail(q)]

\* a lock that never blocks
LockIgnored == TRUE

\* with _stdout_lock: the lock can be taken
LockFree == lock = "free"

\* where a thread goes on after send_native_message returns
Resume(t) == IF t = "main" THEN "read" ELSE "get"

\* the engine constructors that print to sys.stdout
\* (FasterWhisperEngine.__init__, ParakeetEngine.__init__)
Prints(kind) == kind \in {"faster-whisper", "parakeet"}

\* print(..., flush=True) while the process-wide sys.stdout is where it is
AfterPrint(kind) ==
    IF Prints(kind) /\ sys_stdout = 0 THEN Append(outbound, Noise) ELSE outbound

HostInit ==
    /\ pc = [t \in Threads |-> IF t = "main" THEN "read" ELSE "unstarted"]
    /\ env = [t \in Threads |-> NoEnv]
    /\ lock = "free"
    /\ sys_stdout = 0
    /\ outbound = <<>>
    /\ loader = [i \in Loaders |-> [pc |-> "unstarted", old_stdout |-> 0, kind |-> "none", cfg |-> 0]]
    /\ engine_type = "faster-whisper"
    /\ init_cfg = 0
    /\ init_thread = 0
    /\ init_error = 0
    /\ speech_engine = 0
    /\ streaming_engine = 0
    /\ stitch = [i \in Loaders |-> NoStitcher]
    /\ queue = <<>>
    /\ w = [task |-> NoTask, join |-> 0, obj |-> 0, base |-> 0, segs |-> <<>>,
            out |-> <<>>, obs |-> "none"]
    /\ m = [obj |-> 0, op |-> "none", ts |-> 0, pats |-> <<>>]
    /\ nread = 0
    /\ task = <<>>
    /\ resetDone = FALSE

\* ---- the main loop: read_native_message, handle_message, the handler ----

\* a main loop that sends whatever the handler returned
LoopAfterAlwaysSends(response) == "send"

\* main, after handle_message returned: the shutdown marker ends the loop
\* (running = False), any other response is sent
LoopAfter(response) == IF response = "_shutdown" THEN "exit" ELSE "send"

\* handle_init
MainInit(kind) ==
    /\ CanRead(1)
    /\ LET i == Cardinality(Started) + 1
       IN /\ engine_type' = kind
          /\ init_cfg' = i
          /\ init_thread' = i
          /\ loader' = [loader EXCEPT ![i].pc = "sleep"]
          /\ env' = [env EXCEPT !["main"] = Envelope("ready", i, kind)]
    /\ pc' = [pc EXCEPT !["main"] = "send"]
    /\ nread' = nread + 1
    /\ UNCHANGED << lock, sys_stdout, outbound, init_error, speech_engine,
                    streaming_engine, stitch, queue, w, m, task, resetDone >>
    /\ UNCHANGED << stitchVars, detVars, patVars, extraVars >>

\* handle_transcribe
MainTranscribe(ts) ==
    /\ CanRead(0)
    /\ LET id == Len(task) + 1
       IN /\ queue' = Append(queue, [id |-> id, ts |-> ts])
          /\ task' = Append(task, [st |-> "queued", errAtDeq |-> FALSE,
                                   emitted |-> <<>>, proc |-> FALSE, joins |-> 0])
          /\ pc' = [pc EXCEPT !["main"] = "send",
                              !["worker"] = IF @ = "unstarted" THEN "get" ELSE @]
          /\ env' = [env EXCEPT !["main"] = Envelope("transcribe_ack", id, "queued")]
    /\ nread' = nread + 1
    /\ UNCHANGED << lock, sys_stdout, outbound, loader, engine_type, init_cfg,
                    init_thread, init_error, speech_engine, streaming_engine, stitch,
                    w, m, resetDone >>
    /\ UNCHANGED << stitchVars, detVars, patVars, extraVars >>

\* a reset that throws away the tasks still waiting
QueueDiscarded(q) == <<>>

\* _transcribe_queue after handle_reset, which does not touch it
QueueAfterReset(q) == q

\* handle_reset up to the first assignment of streaming_engine.reset()
MainReset ==
    /\ CanRead(0)
    /\ nread' = nread + 1
    /\ queue' = QueueAfterReset(queue)
    /\ IF streaming_engine # 0
       THEN /\ stitch' = [stitch EXCEPT ![streaming_engine] = Reset1(@)]
            /\ m' = [m EXCEPT !.obj = streaming_engine]
            /\ pc' = [pc EXCEPT !["main"] = "reset"]
            /\ UNCHANGED << env, resetDone >>
       ELSE /\ pc' = [pc EXCEPT !["main"] = "send"]
            /\ env' = [env EXCEPT !["main"] = Envelope("reset_complete", 0, "")]
            /\ resetDone' = TRUE
            /\ UNCHANGED << stitch, m >>
    /\ UNCHANGED << lock, sys_stdout, outbound, loader, engine_type, init_cfg,
                    init_thread, init_error, speech_engine, streaming_engine,
                    w, task >>
    /\ UNCHANGED << stitchVars, detVars, patVars, extraVars >>

\* handle_reset from the second assignment of streaming_engine.reset() to its return
MainResetDone ==
    /\ pc["main"] = "reset"
    /\ stitch' = [stitch EXCEPT ![m.obj] = Reset2(@)]
    /\ m' = [m EXCEPT !.obj = 0]
    /\ pc' = [pc EXCEPT !["main"] = "send"]
    /\ env' = [env EXCEPT !["main"] = Envelope("reset_complete", 0, "")]
    /\ resetDone' = TRUE
    /\ UNCHANGED << lock, sys_stdout, outbound, loader, engine_type, init_cfg,
                    init_thread, init_error, speech_engine, streaming_engine, queue,
                    w, nread, task >>
    /\ UNCHANGED << stitchVars, detVars, patVars, extraVars >>

\* the shutdown marker: running = False, nothing is sent
MainShutdown ==
    /\ CanRead(0)
    /\ pc' = [pc EXCEPT !["main"] = LoopAfter("_shutdown")]
    /\ m' = [m EXCEPT !.op = "shutdown"]
    /\ nread' = nread + 1
    /\ UNCHANGED << env, lock, sys_stdout, outbound, loader, engine_type, init_cfg,
                    init_thread, init_error, speech_engine, streaming_engine, stitch,
                    queue, w, task, resetDone >>
    /\ UNCHANGED << stitchVars, detVars, patVars, extraVars >>

\* read_native_message returns None: the stream closed
MainEOF ==
    /\ pc["main"] = "read"
    /\ pc' = [pc EXCEPT !["main"] = "exit"]
    /\ UNCHANGED << env, lock, sys_stdout, outbound, loader, engine_type, init_cfg,
                    init_thread, init_error, speech_engine, streaming_engine, stitch,
                    queue, w, m, nread, task, resetDone >>
    /\ UNCHANGED << stitchVars, detVars, patVars, extraVars >>

\* ---- send_native_message, by the main loop or by the worker ----

\* the worker is through with its task once send_native_message has returned
Finished(t, tk) ==
    IF t = "worker" THEN [tk EXCEPT ![w.task.id].st = "done"] ELSE tk

\* with _stdout_lock: _native_write begins, sys.stdout.buffer.write(data).
\* A StringIO has no buffer: the AttributeError is caught, _native_write
\* returns False and the lock is released.
SendWrite(t) ==
    /\ Running /\ pc[t] = "send"
    /\ LockFree
    /\ IF sys_stdout = 0
       THEN /\ lock' = t
            /\ outbound' = Append(outbound, env[t])
            /\ pc' = [pc EXCEPT ![t] = "flush"]
            /\ UNCHANGED << env, task >>
       ELSE /\ pc' = [pc EXCEPT ![t] = Resume(t)]
            /\ env' = [env EXCEPT ![t] = NoEnv]
            /\ task' = Finished(t, task)
            /\ UNCHANGED << lock, outbound >>
    /\ UNCHANGED << sys_stdout, loader, engine_type, init_cfg,
                    init_thread, init_error, speech_engine, streaming_engine, stitch,
                    queue, w, m, nread, resetDone >>
    /\ UNCHANGED << stitchVars, detVars, patVars, extraVars >>

\* _native_write ends, sys.stdout.buffer.flush(), and the lock is released
SendFlush(t) ==
    /\ Running /\ pc[t] = "flush"
    /\ lock' = "free"
    /\ pc' = [pc EXCEPT ![t] = Resume(t)]
    /\ env' = [env EXCEPT ![t] = NoEnv]
    /\ task' = Finished(t, task)
    /\ UNCHANGED << sys_stdout, outbound, loader, engine_type, init_cfg,
                    init_thread, init_error, speech_engine, streaming_engine, stitch,
                    queue, w, m, nread, resetDone >>
    /\ UNCHANGED << stitchVars, detVars, patVars, extraVars >>

\* ---- _transcription_worker ----

\* the worker hands an envelope for its task to send_native_message
WorkerSends(type, msg) ==
    /\ env' = [env EXCEPT !["worker"] = Envelope(type, w.task.id, msg)]
    /\ task' = [task EXCEPT ![w.task.id].emitted = Append(@, type)]
    /\ pc' = [pc EXCEPT !["worker"] = "send"]

\* task = _transcribe_queue.get(timeout=1);
\* if _init_thread is not None and _init_thread.is_alive(): join it
WorkerGet ==
    /\ Running /\ pc["worker"] = "get"
    /\ queue # <<>>
    /\ LET d == Dequeue(queue)
           waits == init_thread # 0 /\ IsAlive(init_thread)
       IN /\ queue' = d.rest
          /\ w' = [w EXCEPT !.task = d.item, !.segs = <<>>, !.out = <<>>, !.obj = 0,
                           !.base = 0, !.obs = "none",
                           !.join = IF waits THEN init_thread ELSE 0]
          /\ task' = [task EXCEPT ![d.item.id].st = "dequeued",
                                  ![d.item.id].errAtDeq = (init_error # 0),
                                  ![d.item.id].joins = IF waits THEN @ + 1 ELSE @]
          /\ pc' = [pc EXCEPT !["worker"] = IF waits THEN "join" ELSE "check"]
    /\ UNCHANGED << env, lock, sys_stdout, outbound, loader, engine_type, init_cfg,
                    init_thread, init_error, speech_engine, streaming_engine, stitch,
                    m, nread, resetDone >>
    /\ UNCHANGED << stitchVars, detVars, patVars, extraVars >>

\* _init_thread.join(timeout=60) returns because the loader thread has ended
WorkerJoined ==
    /\ Running /\ pc["worker"] = "join"
    /\ ~IsAlive(w.join)
    /\ pc' = [pc EXCEPT !["worker"] = "check"]
    /\ w' = [w EXCEPT !.join = 0]
    /\ UNCHANGED << env, lock, sys_stdout, outbound, loader, engine_type, init_cfg,
                    init_thread, init_error, speech_engine, streaming_engine, stitch,
                    queue, m, nread, task, resetDone >>
    /\ UNCHANGED << stitchVars, detVars, patVars, extraVars >>

\* a join that only returns when the thread has ended
JoinUnbounded(alive) == FALSE

\* join(timeout=60) on a thread that stays alive returns when the 60 seconds are over
JoinTimesOut(alive) == alive

\* _init_thread.join(timeout=60) returns because the 60 seconds are over
WorkerJoinTimeout ==
    /\ Running /\ pc["worker"] = "join"
    /\ JoinTimesOut(IsAlive(w.join))
    /\ pc' = [pc EXCEPT !["worker"] = "check"]
    /\ w' = [w EXCEPT !.join = 0]
    /\ UNCHANGED << env, lock, sys_stdout, outbound, loader, engine_type, init_cfg,
                    init_thread, init_error, speech_engine, streaming_engine, stitch,
                    queue, m, nread, task, resetDone >>
    /\ UNCHANGED << stitchVars, detVars, patVars, extraVars >>

\* a worker that looks at streaming_engine before it looks at _init_error
WorkerDecisionEngineFirst ==
    IF streaming_engine # 0 THEN "process"
    ELSE IF init_error # 0 THEN "init_failed"
    ELSE "not_initialized"

\* what the worker does with a dequeued task, from _init_error and streaming_engine
WorkerDecision ==
    IF init_error # 0 THEN "init_failed"
    ELSE IF streaming_engine = 0 THEN "not_initialized"
    ELSE "process"

\* the two checks before a task is processed; then either an error envelope, or
\* streaming_engine.process_chunk(...) is entered and runs up to the engine call
WorkerCheck ==
    /\ Running /\ pc["worker"] = "check"
    /\ IF WorkerDecision = "process"
       THEN LET obj == streaming_engine
                b == Begin(stitch[obj], w.task.ts, HostAudio)
            IN /\ stitch' = [stitch EXCEPT ![obj] = b.st]
               /\ w' = [w EXCEPT !.obj = obj, !.base = b.base,
                                !.obs = IF ~resetDone THEN "no reset"
                                        ELSE IF Fresh(stitch[obj]) THEN "fresh" ELSE "stale"]
               /\ task' = [task EXCEPT ![w.task.id].proc = TRUE]
               /\ resetDone' = FALSE
               /\ pc' = [pc EXCEPT !["worker"] = "transcribe"]
               /\ UNCHANGED env
       ELSE /\ WorkerSends("error", WorkerDecision)
            /\ UNCHANGED << stitch, w, resetDone >>
    /\ UNCHANGED << lock, sys_stdout, outbound, loader, engine_type, init_cfg,
                    init_thread, init_error, speech_engine, streaming_engine,
                    queue, m, nread >>
    /\ UNCHANGED << stitchVars, detVars, patVars, extraVars >>

\* engine.transcribe_with_segments returns segments
WorkerTranscribe(segs) ==
    /\ Running /\ pc["worker"] = "transcribe"
    /\ w' = [w EXCEPT !.segs = segs]
    /\ pc' = [pc EXCEPT !["worker"] = "segs"]
    /\ UNCHANGED << env, lock, sys_stdout, outbound, loader, engine_type, init_cfg,
                    init_thread, init_error, speech_engine, streaming_engine, stitch,
                    queue, m, nread, task, resetDone >>
    /\ UNCHANGED << stitchVars, detVars, patVars, extraVars >>

\* process_chunk raises (undecodable audio, an inference error): the worker's
\* except clause logs it and the loop goes on
WorkerRaise ==
    /\ Running /\ pc["worker"] = "transcribe"
    /\ task' = [task EXCEPT ![w.task.id].st = "done"]
    /\ pc' = [pc EXCEPT !["worker"] = "get"]
    /\ UNCHANGED << env, lock, sys_stdout, outbound, loader, engine_type, init_cfg,
                    init_thread, init_error, speech_engine, streaming_engine, stitch,
                    queue, w, m, nread, resetDone >>
    /\ UNCHANGED << stitchVars, detVars, patVars, extraVars >>

\* one iteration of the segment loop of process_chunk
WorkerSeg ==
    /\ Running /\ pc["worker"] = "segs"
    /\ w.segs # <<>>
    /\ LET one == SegStep(stitch[w.obj], w.base, Head(w.segs))
       IN /\ stitch' = [stitch EXCEPT ![w.obj] = one.st]
          /\ w' = [w EXCEPT !.segs = Tail(@), !.out = @ \o one.out]
    /\ UNCHANGED << pc, env, lock, sys_stdout, outbound, loader, engine_type,
                    init_cfg, init_thread, init_error, speech_engine, streaming_engine,
                    queue, m, nread, task, resetDone >>
    /\ UNCHANGED << stitchVars, detVars, patVars, extraVars >>

\* process_chunk returns and the transcription envelope is sent
WorkerReturn ==
    /\ Running /\ pc["worker"] = "segs"
    /\ w.segs = <<>>
    /\ WorkerSends("transcription", "")
    /\ UNCHANGED << lock, sys_stdout, outbound, loader, engine_type, init_cfg,
                    init_thread, init_error, speech_engine, streaming_engine, stitch,
                    queue, w, m, nread, resetDone >>
    /\ UNCHANGED << stitchVars, detVars, patVars, extraVars >>

\* ---- _background_load_engine, one thread per init ----

\* time.sleep(0.5) is over; old_stdout = sys.stdout
LoaderWake(i) ==
    /\ Running /\ loader[i].pc = "sleep"
    /\ loader' = [loader EXCEPT ![i].pc = "redirect", ![i].old_stdout = sys_stdout]
    /\ UNCHANGED << pc, env, lock, sys_stdout, outbound, engine_type, init_cfg,
                    init_thread, init_error, speech_engine, streaming_engine, stitch,
                    queue, w, m, nread, task, resetDone >>
    /\ UNCHANGED << stitchVars, detVars, patVars, extraVars >>

\* sys.stdout = captured_output; the branch on _engine_type is taken and the
\* engine constructor is entered with _init_model and _init_device
LoaderRedirect(i) ==
    /\ Running /\ loader[i].pc = "redirect"
    /\ sys_stdout' = i
    /\ loader' = [loader EXCEPT ![i].pc = "building", ![i].kind = engine_type,
                                ![i].cfg = init_cfg]
    /\ UNCHANGED << pc, env, lock, outbound, engine_type, init_cfg,
                    init_thread, init_error, speech_engine, streaming_engine, stitch,
                    queue, w, m, nread, task, resetDone >>
    /\ UNCHANGED << stitchVars, detVars, patVars, extraVars >>

\* the constructor prints and returns: speech_engine = ...;
\* streaming_engine = Streaming...(speech_engine)
LoaderBuilt(i) ==
    /\ Running /\ loader[i].pc = "building"
    /\ speech_engine' = i
    /\ streaming_engine' = i
    /\ stitch' = [stitch EXCEPT ![i] = NewStitcher(loader[i].kind)]
    /\ loader' = [loader EXCEPT ![i].pc = "restore"]
    /\ outbound' = AfterPrint(loader[i].kind)
    /\ UNCHANGED << pc, env, lock, sys_stdout, engine_type, init_cfg,
                    init_thread, init_error,
                    queue, w, m, nread, task, resetDone >>
    /\ UNCHANGED << stitchVars, detVars, patVars, extraVars >>

\* the import or the constructor raises: sys.stdout = old_stdout; _init_error = str(e)
LoaderFail(i) ==
    /\ Running /\ loader[i].pc = "building"
    /\ sys_stdout' = loader[i].old_stdout
    /\ init_error' = i
    /\ loader' = [loader EXCEPT ![i].pc = "done"]
    /\ UNCHANGED << pc, env, lock, outbound, engine_type, init_cfg,
                    init_thread, speech_engine, streaming_engine, stitch,
                    queue, w, m, nread, task, resetDone >>
    /\ UNCHANGED << stitchVars, detVars, patVars, extraVars >>

\* sys.stdout = old_stdout, and the thread ends
LoaderRestore(i) ==
    /\ Running /\ loader[i].pc = "restore"
    /\ sys_stdout' = loader[i].old_stdout
    /\ loader' = [loader EXCEPT ![i].pc = "done"]
    /\ UNCHANGED << pc, env, lock, outbound, engine_type, init_cfg,
                    init_thread, init_error, speech_engine, streaming_engine, stitch,
                    queue, w, m, nread, task, resetDone >>
    /\ UNCHANGED << stitchVars, detVars, patVars, extraVars >>

HostNext ==
    \/ \E kind \in HostKinds : MainInit(kind)
    \/ \E ts \in HostTimes : MainTranscribe(ts)
    \/ MainReset
    \/ MainResetDone
    \/ MainShutdown
    \/ MainEOF
    \/ \E t \in Threads : SendWrite(t)
    \/ \E t \in Threads : SendFlush(t)
    \/ WorkerGet
    \/ WorkerJoined
    \/ WorkerJoinTimeout
    \/ WorkerCheck
    \/ \E segs \in HostResults : WorkerTranscribe(segs)
    \/ WorkerRaise
    \/ WorkerSeg
    \/ WorkerReturn
    \/ \E i \in Loaders : LoaderWake(i)
    \/ \E i \in Loaders : LoaderRedirect(i)
    \/ \E i \in Loaders : LoaderBuilt(i)
    \/ \E i \in Loaders : LoaderFail(i)
    \/ \E i \in Loaders : LoaderRestore(i)

\* the stitcher, detector and pattern variables while they are not what is run
StitchIdle ==
    /\ sst = NoStitcher
    /\ semitted = <<>>
    /\ slog = <<>>
    /\ sstarts = <<>>
    /\ schunks = 0

DetectIdle ==
    /\ patterns = <<>>
    /\ consecutive_matches = <<>>
    /\ run = <<>>
    /\ lastDetections = <<>>
    /\ lastTimestamp = 0
    /\ dchunks = 0
    /\ dcall = [dropped |-> {}, lost |-> {}, fingerprint |-> 0, embed |-> 0]

PatIdle ==
    /\ pattern_engine = 0
    /\ pattern_detector = FALSE
    /\ pattern_init_thread = 0
    /\ pattern_init_error = 0
    /\ ploader = [pc |-> "unstarted", old_stdout |-> 0]

\* nothing read yet
ReadIdle == rd = [frame |-> <<>>, prefix_read |-> 0, payload_read |-> 0, result |-> "nothing",
                  handled |-> 0, exit |-> "no"]

\* match_fingerprint not called yet
MatchIdle == fpm = [fp1 |-> <<>>, fp2 |-> <<>>, max_offset |-> 0, score |-> <<0, 1>>, offset |-> 0,
                    similarity |-> [o \in {} |-> <<0, 1>>], calls |-> 0]

\* no embedding quantized yet
QuantIdle == qe = [v |-> <<>>, quantized |-> <<>>, dequantized |-> [den |-> 1, runs |-> <<>>],
                   similarity |-> [dot |-> 0, norm1_sq |-> 0, norm2_sq |-> 0], calls |-> 0]

\* no learn_pattern handled yet
LearnIdle == lp = [calls |-> 0, patternType |-> "absent", engine |-> "none", raises |-> FALSE,
                   fingerprint |-> "None", embedding |-> "None",
                   reply |-> [type |-> "none", patternType |-> "", keys |-> {}, message |-> ""]]

ExtraIdle == ReadIdle /\ MatchIdle /\ QuantIdle /\ LearnIdle

Init == HostInit /\ StitchIdle /\ DetectIdle /\ PatIdle /\ ExtraIdle

Next == HostNext

Spec == Init /\ [][Next]_vars

-----------------------------------------------------------------------------
(* Properties of the host *)

\* an envelope the worker sent as the result of a task
IsResult(e) == e.type \in ResultTypes /\ e.id > 0

\* the places of outbound that hold the worker's result for task id
ResultsOf(id) == {k \in DOMAIN outbound : IsResult(outbound[k]) /\ outbound[k].id = id}

\* C1: the worker's result envelopes appear on the outbound channel in the order
\* in which the main loop enqueued their transcribe messages (task ids are given
\* in that order), and no task's result appears twice.
C1_ResultsInEnqueueOrder ==
    \A a, b \in DOMAIN outbound :
        (a < b /\ IsResult(outbound[a]) /\ IsResult(outbound[b]))
            => outbound[a].id < outbound[b].id

\* two tasks were enqueued and both results are on the channel
C1_Witness == ResultsOf(1) # {} /\ ResultsOf(2) # {}

\* C2: the transcribe_ack of a chunk is on the outbound channel before the
\* worker's result envelope for the same chunk.
C2_AckBeforeResult ==
    \A b \in DOMAIN outbound :
        IsResult(outbound[b])
            => \E a \in 1..(b - 1) : /\ outbound[a].type = "transcribe_ack"
                                     /\ outbound[a].id = outbound[b].id

\* C3: every task the worker has dequeued and is through with was answered with
\* exactly one envelope (a transcription or an error) handed to the channel.
C3_EveryTaskAnswered ==
    \A id \in DOMAIN task :
        task[id].st = "done" => Len(task[id].emitted) = 1

\* a thread is inside the write-and-flush section of send_native_message
InSection(t) == pc[t] = "flush"

\* C4: at most one thread is inside the write-and-flush section at any time, and
\* the thread inside is the one holding _stdout_lock.
C4_OneWriterAtATime ==
    /\ \A t1, t2 \in Threads : (InSection(t1) /\ InSection(t2)) => t1 = t2
    /\ \A t \in Threads : InSection(t) <=> lock = t

\* the main loop is inside the section while the worker waits for the lock with
\* an envelope of its own
C4_Witness == InSection("main") /\ pc["worker"] = "send"

\* C6: a task dequeued after a load error was recorded is never passed to
\* process_chunk, gets the initialization-failed error envelope and nothing else,
\* is not put back on the queue, and once it is answered the worker is back at
\* the queue for the next task.
C6_FailedLoadAnswersError ==
    \A id \in DOMAIN task :
        task[id].errAtDeq =>
            /\ ~task[id].proc
            /\ \A k \in DOMAIN queue : queue[k].id # id
            /\ IF task[id].st = "done"
               THEN /\ task[id].emitted = <<"error">>
                    /\ w.task.id = id => pc["worker"] = "get"
               ELSE /\ task[id].emitted \in {<<>>, <<"error">>}
                    /\ w.task.id = id
                    /\ pc["worker"] = "send"
                          => env["worker"] = Envelope("error", id, "init_failed")

\* a task dequeued after a load error has been answered and a later task has
\* been dequeued after it
C6_Witness ==
    \E id \in DOMAIN task :
        /\ task[id].errAtDeq /\ task[id].st = "done"
        /\ task[id].emitted = <<"error">>
        /\ w.task.id > id

\* C9: the first chunk the worker starts after a reset was handled observes a
\* fresh session (last_end_time 0, empty last_text, empty pending_audio).
C9_FreshAfterReset == w.obs # "stale"


-----------------------------------------------------------------------------
(* The stitchers fed chunk after chunk: SpecStitch *)

\* what a chunk can be: its chunk_start_time, the length of its audio, and the
\* segments the engine returns for it (in time order, each with start <= end)
ChunkStarts == {0, 30}
AudioLens == {0, 16}
SegTimes == { <<0, 10>>, <<5, 30>>, <<40, 50>> }
Texts == { <<"see", "the", "cat">>, <<"the", "cat", "ran", "away">>, <<"The", "cat">>, <<"cat">>, <<>> }
Segs == {[start |-> t[1], end |-> t[2], text |-> x] : t \in SegTimes, x \in Texts}
EngineResults ==
    {<<>>} \cup {<<a>> : a \in Segs}
           \cup {p \in Segs \X Segs : p[1].end <= p[2].start}

StitchInit ==
    /\ sst \in {NewStitcher(kind) : kind \in EngineKinds}
    /\ semitted = <<>>
    /\ slog = <<>>
    /\ sstarts = <<>>
    /\ schunks = 0

\* process_chunk(audio_base64, chunk_start_time)
StitchProcessChunk(chunk_start_time, audio_len, segs) ==
    /\ schunks < MaxChunks
    /\ LET begun == Begin(sst, chunk_start_time, audio_len)
           done == SegLoop(begun.st, begun.base, segs)
       IN /\ sst' = done.st
          /\ semitted' = semitted \o done.out
          /\ slog' = done.log
    /\ sstarts' = Append(sstarts, chunk_start_time)
    /\ schunks' = schunks + 1
    /\ UNCHANGED << hostVars, detVars, patVars, extraVars >>

\* reset(): the session ends and a new one begins
StitchReset ==
    /\ sst' = ResetStitcher(sst)
    /\ semitted' = <<>>
    /\ slog' = <<>>
    /\ sstarts' = <<>>
    /\ UNCHANGED schunks
    /\ UNCHANGED << hostVars, detVars, patVars, extraVars >>

StitchNext ==
    \/ \E chunk_start_time \in ChunkStarts, audio_len \in AudioLens, segs \in EngineResults :
           StitchProcessChunk(chunk_start_time, audio_len, segs)
    \/ StitchReset

InitStitch == HostInit /\ StitchInit /\ DetectIdle /\ PatIdle /\ ExtraIdle

NextStitch == StitchNext

SpecStitch == InitStitch /\ [][NextStitch]_vars

\* a sequence of numbers that never goes down
NonDecreasing(seq) == \A i \in 1..(Len(seq) - 1) : seq[i] <= seq[i + 1]

\* the start values of the segments emitted in this session, in emission order
EmittedStarts == [i \in DOMAIN semitted |-> semitted[i].start]

\* C7: in a session fed chunks with non-decreasing chunk_start_time, the start
\* values of the emitted segments, in emission order across the chunks, are
\* non-decreasing, whichever of the three stitchers is used.
C7_MonotoneStarts == NonDecreasing(sstarts) => NonDecreasing(EmittedStarts)

\* a second chunk of an ordered session emitted a segment whose start had to be
\* moved up to the end of what an earlier chunk emitted
C7_Witness ==
    /\ Len(sstarts) >= 2 /\ NonDecreasing(sstarts)
    /\ Len(semitted) >= 2
    /\ \E k \in DOMAIN slog :
           /\ slog[k].out # <<>>
           /\ slog[k].out[1].start > slog[k].base + slog[k].raw.start

\* the previous text ends with the k words the raw text begins with
BoundaryOverlap(prev, raw, k) ==
    /\ k <= Len(prev) /\ k <= Len(raw)
    /\ LastWords(LowerText(prev), k) = FirstWords(LowerText(raw), k)

\* C8: when the previously emitted text ends with the words the next raw segment
\* begins with, the segment is suppressed or emitted without those words: what
\* is emitted never begins with the overlapping words again.
C8_NoBoundaryRepeat ==
    \A e \in DOMAIN slog : \A k \in 1..3 :
        (BoundaryOverlap(slog[e].prev, slog[e].raw.text, k) /\ slog[e].out # <<>>)
            => ~BoundaryOverlap(slog[e].prev, slog[e].out[1].text, k)

-----------------------------------------------------------------------------
(* The pattern detector: SpecDetect *)

PatternIds == {"p1", "p2", "p3"}
P1 == [id |-> "p1", type |-> "semantic"]
P2 == [id |-> "p2", type |-> "exact"]
P3 == [id |-> "p3", type |-> "exact"]

\* the pattern lists a caller supplies
PatternLists == { <<>>, <<P1>>, <<P1, P2>>, <<P2, P3>> }

\* the timestamps a chunk can carry
DetTimes == {0, 19, 20, 21}

\* the detections list process_chunk builds: the exact patterns the engine
\* matched, then the semantic ones, each in the order of self.patterns
Detections(pats, hits, timestamp) ==
    LET exact == SelectSeq(pats, LAMBDA p : p.type = "exact" /\ p.id \in hits)
        semantic == SelectSeq(pats, LAMBDA p : p.type = "semantic" /\ p.id \in hits)
    IN [i \in DOMAIN exact |->
            [pattern_id |-> exact[i].id, method |-> "fingerprint", timestamp |-> timestamp]]
       \o [i \in DOMAIN semantic |->
            [pattern_id |-> semantic[i].id, method |-> "embedding", timestamp |-> timestamp]]

\* a match state that restarts at every detection
ContinueRestarted(entry, detection, timestamp) ==
    [entry EXCEPT !.start_time = timestamp, !.last_time = timestamp,
                  !.detection = detection]

\* the else branch of the second loop: the pattern is tracked already
Continue(entry, detection, timestamp) ==
    [entry EXCEPT !.last_time = timestamp, !.detection = detection]

\* the second loop of _update_consecutive_matches
RECURSIVE Track(_, _, _)
Track(cm, detections, timestamp) ==
    IF detections = <<>> THEN cm
    ELSE LET detection == Head(detections)
             tracked == \E i \in DOMAIN cm : cm[i].pattern_id = detection.pattern_id
         IN Track(IF tracked
                  THEN [i \in DOMAIN cm |->
                           IF cm[i].pattern_id = detection.pattern_id
                           THEN Continue(cm[i], detection, timestamp)
                           ELSE cm[i]]
                  ELSE Append(cm, [pattern_id |-> detection.pattern_id,
                                   start_time |-> timestamp, last_time |-> timestamp,
                                   detection |-> detection]),
                  Tail(detections), timestamp)

\* a detector that keeps the match state of a pattern that is absent
KeptAll(cm, detected_ids) == cm

\* the first loop of _update_consecutive_matches: what is left of consecutive_matches
Kept(cm, detected_ids) == SelectSeq(cm, LAMBDA e : e.pattern_id \in detected_ids)

\* PatternDetector._update_consecutive_matches
UpdateConsecutiveMatches(cm, detections, timestamp) ==
    LET detected_ids == {detections[i].pattern_id : i \in DOMAIN detections}
        kept == Kept(cm, detected_ids)
    IN Track(kept, detections, timestamp)

\* the pattern ids with a match state
Tracked(cm) == {cm[i].pattern_id : i \in DOMAIN cm}

\* no process_chunk call yet
NoCall == [dropped |-> {}, lost |-> {}, fingerprint |-> 0, embed |-> 0]

\* a detector that fingerprints the chunk once for each exact pattern
FingerprintCallsPerPattern(pats) == Len(SelectSeq(pats, LAMBDA p : p.type = "exact"))

\* the calls of engine.fingerprint in one process_chunk: one, under
\* 'if exact_patterns', before the loop over the exact patterns
FingerprintCalls(pats) ==
    IF SelectSeq(pats, LAMBDA p : p.type = "exact") # <<>> THEN 1 ELSE 0

\* the calls of engine.embed in one process_chunk: one, under
\* 'if semantic_patterns', before the loop over the semantic patterns
EmbedCalls(pats) ==
    IF SelectSeq(pats, LAMBDA p : p.type = "semantic") # <<>> THEN 1 ELSE 0

\* history of one process_chunk call: the ids whose match state it deleted, the
\* ids whose match state this or an earlier call deleted, and the engine calls
\* it made (none when it returns at 'if not self.patterns')
CallOf(pats, cm_before, cm_after, lost) ==
    IF pats = <<>> THEN [NoCall EXCEPT !.lost = lost]
    ELSE [dropped |-> Tracked(cm_before) \ Tracked(cm_after),
          lost |-> lost \cup (Tracked(cm_before) \ Tracked(cm_after)),
          fingerprint |-> FingerprintCalls(pats), embed |-> EmbedCalls(pats)]

\* PatternDetector.process_chunk: the list returned and consecutive_matches after
ProcessChunk(pats, cm, hits, timestamp) ==
    IF pats = <<>> THEN [detections |-> <<>>, cm |-> cm]
    ELSE LET detections == Detections(pats, hits, timestamp)
         IN [detections |-> detections,
             cm |-> UpdateConsecutiveMatches(cm, detections, timestamp)]

\* a run is confirmed only when it is longer than the minimum
ConfirmsStrictly(duration) == duration > MinMatchDuration

\* the test of get_confirmed_detections
Confirms(duration) == duration >= MinMatchDuration

\* PatternDetector.get_confirmed_detections
GetConfirmedDetections(cm, timestamp) ==
    LET long == SelectSeq(cm, LAMBDA e : Confirms(e.last_time - e.start_time))
    IN [i \in DOMAIN long |->
           [pattern_id |-> long[i].pattern_id,
            method |-> long[i].detection.method,
            timestamp |-> long[i].detection.timestamp,
            confirmed |-> TRUE,
            match_duration |-> long[i].last_time - long[i].start_time,
            match_start |-> long[i].start_time]]

\* history: the first timestamp of each pattern's unbroken run, after a chunk in
\* which the engine matched the patterns in hits
RunAfter(pats, hits, timestamp) ==
    LET detected == {pats[i].id : i \in DOMAIN pats} \cap hits
    IN [id \in detected |-> IF id \in DOMAIN run THEN run[id] ELSE timestamp]

\* PatternDetector.__init__: patterns and consecutive_matches of a new detector
NewDetector(pats) == [patterns |-> pats, cm |-> <<>>]

\* PatternDetector.set_patterns: patterns and consecutive_matches after it
SetPatterns(pats) == [patterns |-> pats, cm |-> <<>>]

\* PatternDetector(engine, patterns)
DetectInit ==
    /\ \E pats \in PatternLists :
           /\ patterns = NewDetector(pats).patterns
           /\ consecutive_matches = NewDetector(pats).cm
    /\ run = <<>>
    /\ lastDetections = <<>>
    /\ lastTimestamp = 0
    /\ dchunks = 0
    /\ dcall = NoCall

\* process_chunk(audio_base64, timestamp)
DetProcessChunk(hits, timestamp) ==
    /\ dchunks < MaxDetChunks
    /\ LET done == ProcessChunk(patterns, consecutive_matches, hits, timestamp)
       IN /\ consecutive_matches' = done.cm
          /\ lastDetections' = done.detections
          /\ dcall' = CallOf(patterns, consecutive_matches, done.cm, dcall.lost)
    /\ run' = RunAfter(patterns, hits, timestamp)
    /\ lastTimestamp' = timestamp
    /\ dchunks' = dchunks + 1
    /\ UNCHANGED patterns
    /\ UNCHANGED << hostVars, stitchVars, patVars, extraVars >>

\* set_patterns(patterns)
DetSetPatterns(pats) ==
    /\ patterns' = SetPatterns(pats).patterns
    /\ consecutive_matches' = SetPatterns(pats).cm
    /\ run' = <<>>
    /\ UNCHANGED << lastDetections, lastTimestamp, dchunks, dcall >>
    /\ UNCHANGED << hostVars, stitchVars, patVars, extraVars >>

\* reset()
DetReset ==
    /\ consecutive_matches' = <<>>
    /\ run' = <<>>
    /\ UNCHANGED << patterns, lastDetections, lastTimestamp, dchunks, dcall >>
    /\ UNCHANGED << hostVars, stitchVars, patVars, extraVars >>

DetectNext ==
    \/ \E hits \in SUBSET PatternIds, timestamp \in DetTimes : DetProcessChunk(hits, timestamp)
    \/ \E pats \in PatternLists : DetSetPatterns(pats)
    \/ DetReset

InitDetect == HostInit /\ StitchIdle /\ DetectInit /\ PatIdle /\ ExtraIdle

NextDetect == DetectNext

SpecDetect == InitDetect /\ [][NextDetect]_vars

\* what get_confirmed_detections returns for one pattern
ConfirmedFor(id) ==
    SelectSeq(GetConfirmedDetections(consecutive_matches, lastTimestamp),
              LAMBDA d : d.pattern_id = id)

\* C10: a pattern detected in every chunk of an unbroken run that began at t0 is
\* in get_confirmed_detections exactly when the latest chunk's timestamp minus t0
\* is at least 2.0 s, and then with match_duration that difference and
\* match_start t0; a pattern in no run is not in it.
C10_ConfirmedIffTwoSeconds ==
    \A id \in PatternIds :
        IF id \in DOMAIN run /\ lastTimestamp - run[id] >= MinMatchDuration
        THEN /\ Len(ConfirmedFor(id)) = 1
             /\ ConfirmedFor(id)[1].confirmed
             /\ ConfirmedFor(id)[1].match_duration = lastTimestamp - run[id]
             /\ ConfirmedFor(id)[1].match_start = run[id]
        ELSE ConfirmedFor(id) = <<>>

\* a run of p1 from 0.0 through 2.1 is confirmed with match_duration 2.1
C10_Witness ==
    /\ "p1" \in DOMAIN run /\ run["p1"] = 0 /\ lastTimestamp = 21
    /\ dchunks >= 2
    /\ Len(ConfirmedFor("p1")) = 1
    /\ ConfirmedFor("p1")[1].match_duration = 21


-----------------------------------------------------------------------------
(* The pattern half of the host: SpecPattern *)

\* the StringIO of the pattern loader, as a value of sys_stdout
PatternCapture == 0 - 1

\* _pattern_init_thread.is_alive()
PatternLoaderAlive == ploader.pc \in {"sleep", "building"}

\* the main loop is at read_native_message and the run has room for a message
CanReadPattern == pc["main"] = "read" /\ nread < MaxPatMsgs

\* handle_init_patterns
PatInitPatterns ==
    /\ CanReadPattern
    /\ nread' = nread + 1
    /\ IF pattern_engine = 0 /\ pattern_init_thread = 0
       THEN /\ pattern_init_thread' = 1
            /\ ploader' = [ploader EXCEPT !.pc = "sleep"]
       ELSE UNCHANGED << pattern_init_thread, ploader >>
    /\ env' = [env EXCEPT !["main"] =
                  Envelope("patterns_ready", 0,
                           IF pattern_engine = 0 THEN "loading" ELSE "ready")]
    /\ pc' = [pc EXCEPT !["main"] = "send"]
    /\ m' = [m EXCEPT !.op = "init_patterns"]
    /\ UNCHANGED << lock, sys_stdout, outbound, pattern_engine, pattern_detector,
                    pattern_init_error, detVars >>
    /\ UNCHANGED << hostOnlyVars, stitchVars, extraVars >>

\* handle_detect and handle_learn_pattern up to the is_alive() test: the main
\* thread goes into _pattern_init_thread.join(timeout=60) when the loader runs
PatBegin(op, ts, pats) ==
    /\ CanReadPattern
    /\ nread' = nread + 1
    /\ m' = [m EXCEPT !.op = op, !.ts = ts, !.pats = pats]
    /\ pc' = [pc EXCEPT !["main"] =
                 IF pattern_init_thread # 0 /\ PatternLoaderAlive THEN "join" ELSE "decide"]
    /\ UNCHANGED << env, lock, sys_stdout, outbound, patVars, detVars >>
    /\ UNCHANGED << hostOnlyVars, stitchVars, extraVars >>

\* handle_detect begins
PatDetect(ts, pats) == PatBegin("detect", ts, pats)

\* handle_learn_pattern begins
PatLearnPattern == PatBegin("learn_pattern", 0, <<>>)

\* join(timeout=60) returns because the loader thread ended
PatJoinReturns ==
    /\ pc["main"] = "join" /\ ~PatternLoaderAlive
    /\ pc' = [pc EXCEPT !["main"] = "decide"]
    /\ UNCHANGED << env, lock, sys_stdout, outbound, m, nread, patVars, detVars >>
    /\ UNCHANGED << hostOnlyVars, stitchVars, extraVars >>

\* join(timeout=60) returns because the 60 seconds ran out
PatJoinTimeout ==
    /\ pc["main"] = "join" /\ PatternLoaderAlive
    /\ pc' = [pc EXCEPT !["main"] = "decide"]
    /\ UNCHANGED << env, lock, sys_stdout, outbound, m, nread, patVars, detVars >>
    /\ UNCHANGED << hostOnlyVars, stitchVars, extraVars >>

\* the reply handle_detect / handle_learn_pattern gives without an engine
\* ("" when it goes on to the engine)
PatRefusal(op) ==
    IF op = "detect"
    THEN IF pattern_init_error # 0 \/ pattern_engine = 0 THEN "not_available" ELSE ""
    ELSE IF pattern_init_error # 0 THEN "init_failed"
         ELSE IF pattern_engine = 0 THEN "not_initialized" ELSE ""

\* a host that answers every refusal with an error envelope
RefusalTypeError(op) == "error"

\* the type of the envelope a refusal is returned in: handle_detect degrades to
\* a detections reply, handle_learn_pattern returns an error
RefusalType(op) == IF op = "detect" THEN "detections" ELSE "error"

\* the tests of _pattern_init_error and pattern_engine after the join
PatDecide ==
    /\ pc["main"] = "decide"
    /\ IF PatRefusal(m.op) # ""
       THEN /\ env' = [env EXCEPT !["main"] =
                          Envelope(RefusalType(m.op), 0, PatRefusal(m.op))]
            /\ pc' = [pc EXCEPT !["main"] = "send"]
       ELSE /\ pc' = [pc EXCEPT !["main"] = "call"]
            /\ UNCHANGED env
    /\ UNCHANGED << lock, sys_stdout, outbound, m, nread, patVars, detVars >>
    /\ UNCHANGED << hostOnlyVars, stitchVars, extraVars >>

\* handle_detect from the PatternDetector construction or set_patterns to the
\* reply: process_chunk and get_confirmed_detections run on the main thread
PatDetectCall(hits) ==
    /\ pc["main"] = "call" /\ m.op = "detect"
    /\ LET det == IF pattern_detector THEN SetPatterns(m.pats) ELSE NewDetector(m.pats)
           done == ProcessChunk(det.patterns, det.cm, hits, m.ts)
       IN /\ patterns' = det.patterns
          /\ consecutive_matches' = done.cm
          /\ lastDetections' = done.detections
          /\ dcall' = CallOf(det.patterns, det.cm, done.cm, dcall.lost)
    /\ run' = RunAfter(m.pats, hits, m.ts)
    /\ lastTimestamp' = m.ts
    /\ dchunks' = dchunks + 1
    /\ pattern_detector' = TRUE
    /\ env' = [env EXCEPT !["main"] = Envelope("detections", 0, "ok")]
    /\ pc' = [pc EXCEPT !["main"] = "send"]
    /\ UNCHANGED << lock, sys_stdout, outbound, m, nread, pattern_engine,
                    pattern_init_thread, pattern_init_error, ploader >>
    /\ UNCHANGED << hostOnlyVars, stitchVars, extraVars >>

\* handle_learn_pattern from decode_audio to the reply: fingerprint and embed
\* run on the main thread; learned or not
PatLearnCall(learned) ==
    /\ pc["main"] = "call" /\ m.op = "learn_pattern"
    /\ env' = [env EXCEPT !["main"] =
                  IF learned THEN Envelope("pattern_learned", 0, "ok")
                  ELSE Envelope("error", 0, "learn_failed")]
    /\ pc' = [pc EXCEPT !["main"] = "send"]
    /\ UNCHANGED << lock, sys_stdout, outbound, m, nread, patVars, detVars >>
    /\ UNCHANGED << hostOnlyVars, stitchVars, extraVars >>

\* a handler that refuses to reset when there is no detector
ResetReplyNeedsDetector(has_detector) == IF has_detector THEN "patterns_reset" ELSE "error"

\* the type of the reply of handle_reset_patterns
ResetReply(has_detector) == "patterns_reset"

\* handle_reset_patterns
PatResetPatterns ==
    /\ CanReadPattern
    /\ nread' = nread + 1
    /\ m' = [m EXCEPT !.op = "reset_patterns"]
    /\ IF pattern_detector
       THEN /\ consecutive_matches' = <<>>
            /\ run' = <<>>
       ELSE UNCHANGED << consecutive_matches, run >>
    /\ env' = [env EXCEPT !["main"] = Envelope(ResetReply(pattern_detector), 0, "")]
    /\ pc' = [pc EXCEPT !["main"] = "send"]
    /\ UNCHANGED << lock, sys_stdout, outbound, patVars, patterns, lastDetections,
                    lastTimestamp, dchunks, dcall >>
    /\ UNCHANGED << hostOnlyVars, stitchVars, extraVars >>

\* _background_load_pattern_engine: the sleep ends, old_stdout = sys.stdout,
\* sys.stdout = captured_output
PLoaderWake ==
    /\ Running /\ ploader.pc = "sleep"
    /\ ploader' = [pc |-> "building", old_stdout |-> sys_stdout]
    /\ sys_stdout' = PatternCapture
    /\ UNCHANGED << pc, env, lock, outbound, m, nread, pattern_engine, pattern_detector,
                    pattern_init_thread, pattern_init_error, detVars >>
    /\ UNCHANGED << hostOnlyVars, stitchVars, extraVars >>

\* PatternEngine(device='cuda') returned: sys.stdout = old_stdout
PLoaderBuilt ==
    /\ Running /\ ploader.pc = "building"
    /\ pattern_engine' = 1
    /\ sys_stdout' = ploader.old_stdout
    /\ ploader' = [ploader EXCEPT !.pc = "done"]
    /\ UNCHANGED << pc, env, lock, outbound, m, nread, pattern_detector,
                    pattern_init_thread, pattern_init_error, detVars >>
    /\ UNCHANGED << hostOnlyVars, stitchVars, extraVars >>

\* PatternEngine(device='cuda') raised: sys.stdout = old_stdout, the error is kept
PLoaderFail ==
    /\ Running /\ ploader.pc = "building"
    /\ pattern_init_error' = 1
    /\ sys_stdout' = ploader.old_stdout
    /\ ploader' = [ploader EXCEPT !.pc = "done"]
    /\ UNCHANGED << pc, env, lock, outbound, m, nread, pattern_engine, pattern_detector,
                    pattern_init_thread, detVars >>
    /\ UNCHANGED << hostOnlyVars, stitchVars, extraVars >>

\* send_native_message by the main loop
PatSendWrite == SendWrite("main")
PatSendFlush == SendFlush("main")

\* the stream closed
PatEOF == MainEOF

PatNext ==
    \/ PatInitPatterns
    \/ \E ts \in DetTimes, pats \in PatternLists : PatDetect(ts, pats)
    \/ PatLearnPattern
    \/ PatJoinReturns
    \/ PatJoinTimeout
    \/ PatDecide
    \/ \E hits \in SUBSET PatternIds : PatDetectCall(hits)
    \/ \E learned \in BOOLEAN : PatLearnCall(learned)
    \/ PatResetPatterns
    \/ PLoaderWake
    \/ PLoaderBuilt
    \/ PLoaderFail
    \/ PatSendWrite
    \/ PatSendFlush
    \/ PatEOF

NextPattern == PatNext

SpecPattern == Init /\ [][NextPattern]_vars

\* C5: the main thread is never inside a join on a loader thread and never
\* inside an engine call; every handler goes straight back to the read loop.
C5_MainNeverWaits == pc["main"] \notin {"join", "call"}


\* the main loop holds the reply of a detect request that went through the engine
DetectReplied == pc["main"] = "send" /\ env["main"] = Envelope("detections", 0, "ok")

\* C11: across the detect requests the host handles, a pattern detected in every
\* request since t0 (no request without it, no reset_patterns) whose latest
\* timestamp is at least 2.0 s after t0 is in the confirmed list of the reply.
C11_ConfirmedAcrossDetects ==
    DetectReplied =>
        \A id \in DOMAIN run :
            lastTimestamp - run[id] >= MinMatchDuration => ConfirmedFor(id) # <<>>


-----------------------------------------------------------------------------
(* The inbound side: read_native_message, handle_message and main: SpecRead *)

\* what stdin holds when a read begins: the bytes there are for the 4-byte
\* prefix, how many payload bytes follow before the stream ends, and what the
\* payload is (kind, and the value of its 'type' key when it is a JSON object)
Prefixes == { <<>>, <<20, 0>>, <<20, 0, 0, 0>>, <<0, 0, 0, 0>>, <<0, 0, 16, 0>>, <<1, 0, 16, 0>> }
Avails == {0, 19, 20, 1048576}
RecognizedTypes == {"init", "transcribe", "reset", "ping", "shutdown",
                    "init_patterns", "learn_pattern", "detect", "reset_patterns"}
\* "[list]" stands for a 'type' value that is a JSON array, "" for a missing key
ReadTypes == {"ping", "reset", "reset_patterns", "shutdown", "frobnicate", "", "[list]"}
Contents == {[kind |-> k, type |-> ""] : k \in {"bad_utf8", "bad_json", "array", "null"}}
            \cup {[kind |-> "object", type |-> t] : t \in ReadTypes}
Frames == [prefix : Prefixes, avail : Avails, content : Contents]

\* struct.unpack('<I', raw_length)[0]
UnpackLE(b) == b[1] + 256 * b[2] + 65536 * b[3] + 16777216 * b[4]

\* a length is refused from this value on
TooLargeFrom(message_length) == message_length >= MaxMessageLength

\* if message_length > 1024 * 1024
TooLarge(message_length) == message_length > MaxMessageLength

\* any JSON value is taken for an envelope
IsEnvelopeAnyJson(kind) == kind \in {"object", "array", "null"}

\* json.loads(message_data.decode('utf-8')) followed by msg.get(...): only a JSON
\* object gets through; bad UTF-8 and bad JSON raise in the first, another JSON
\* value has no get and raises in the second
IsEnvelope(kind) == kind = "object"

\* read_native_message on a frame: what it returns ("none" for None), the
\* message type, and how many prefix and payload bytes it took from stdin
ReadNativeMessage(frame) ==
    LET none(p, q) == [result |-> "none", type |-> "", prefix_read |-> p, payload_read |-> q]
    IN IF Len(frame.prefix) < 4 THEN none(Len(frame.prefix), 0)
       ELSE LET message_length == UnpackLE(frame.prefix)
                got == Min(message_length, frame.avail)
            IN IF TooLarge(message_length) THEN none(4, 0)
               ELSE IF got < message_length THEN none(4, got)
               ELSE IF message_length = 0 \/ ~IsEnvelope(frame.content.kind) THEN none(4, got)
               ELSE [result |-> "message", type |-> frame.content.type,
                     prefix_read |-> 4, payload_read |-> got]

\* the main loop is at read_native_message and the run has room for a frame
CanReadFrame == pc["main"] = "read" /\ nread < MaxReads

\* main: message = read_native_message(); if message is None: break;
\* otherwise handle_message(message) is entered
ReadFrame(frame) ==
    /\ CanReadFrame
    /\ nread' = nread + 1
    /\ LET r == ReadNativeMessage(frame)
       IN /\ rd' = [rd EXCEPT !.frame = frame, !.prefix_read = r.prefix_read,
                              !.payload_read = r.payload_read, !.result = r.result,
                              !.handled = IF r.result = "message" THEN @ + 1 ELSE @,
                              !.exit = IF r.result = "message" THEN @ ELSE "eof"]
          /\ pc' = [pc EXCEPT !["main"] = IF r.result = "message" THEN "handle" ELSE "exit"]
          /\ m' = [m EXCEPT !.op = r.type]
    /\ UNCHANGED << env, lock, sys_stdout, outbound, hostOnlyVars, stitchVars, detVars,
                    patVars, fpm, qe, lp >>

\* the main loop hands the handler's reply to send_native_message
Replies(type, msg) ==
    /\ env' = [env EXCEPT !["main"] = Envelope(type, 0, msg)]
    /\ pc' = [pc EXCEPT !["main"] = "send"]
    /\ UNCHANGED << lock, sys_stdout, outbound, m, nread, rd, hostOnlyVars, stitchVars,
                    detVars, patVars, fpm, qe, lp >>

\* handlers.get(msg_type) hashes msg_type: a list cannot be hashed
Hashable(type) == type # "[list]"

\* handle_ping (no init was handled: speech_engine is None)
ReadPing ==
    /\ pc["main"] = "handle" /\ m.op = "ping"
    /\ Replies("pong", IF speech_engine # 0 THEN "initialized" ELSE "not initialized")

\* handle_reset: streaming_engine is None, there is nothing to reset
ReadReset ==
    /\ pc["main"] = "handle" /\ m.op = "reset" /\ streaming_engine = 0
    /\ Replies("reset_complete", "")

\* handle_reset_patterns: pattern_detector is None, there is nothing to reset
ReadResetPatterns ==
    /\ pc["main"] = "handle" /\ m.op = "reset_patterns" /\ ~pattern_detector
    /\ Replies("patterns_reset", "")

\* the shutdown marker: running = False, nothing is sent, the loop ends
ReadShutdown ==
    /\ pc["main"] = "handle" /\ m.op = "shutdown"
    /\ pc' = [pc EXCEPT !["main"] = LoopAfter("_shutdown")]
    /\ rd' = [rd EXCEPT !.exit = "shutdown"]
    /\ UNCHANGED << env, lock, sys_stdout, outbound, m, nread, hostOnlyVars, stitchVars,
                    detVars, patVars, fpm, qe, lp >>

\* an error message that does not name the type
UnknownTypeMessageBare(msg_type) == << "Unknown message type: ", "unknown" >>

\* f'Unknown message type: {msg_type}'
UnknownTypeMessage(msg_type) == << "Unknown message type: ", msg_type >>

\* handle_message finds no handler and returns the error envelope
ReadUnknown ==
    /\ pc["main"] = "handle" /\ Hashable(m.op) /\ m.op \notin RecognizedTypes
    /\ Replies("error", UnknownTypeMessage(m.op))

\* str(e) of the exception handling a message of this type raises ("" if none):
\* handlers.get(msg_type) raises TypeError for a type that cannot be hashed
ExceptionOf(msg_type) == IF Hashable(msg_type) THEN "" ELSE "unhashable type: 'list'"

\* an error message that leaves the exception out
UnexpectedErrorBare(e) == << "Unexpected error: ", "" >>

\* f'Unexpected error: {str(e)}'
UnexpectedErrorMessage(e) == << "Unexpected error: ", e >>

\* handle_message raises; main's except clause sends the error envelope and the
\* loop goes on
ReadRaise ==
    /\ pc["main"] = "handle" /\ ExceptionOf(m.op) # ""
    /\ Replies("error", UnexpectedErrorMessage(ExceptionOf(m.op)))

ReadSendWrite == SendWrite("main")
ReadSendFlush == SendFlush("main")

ReadNext ==
    \/ \E frame \in Frames : ReadFrame(frame)
    \/ ReadPing
    \/ ReadReset
    \/ ReadResetPatterns
    \/ ReadShutdown
    \/ ReadUnknown
    \/ ReadRaise
    \/ ReadSendWrite
    \/ ReadSendFlush

SpecRead == Init /\ [][ReadNext]_vars

\* the declared length of a frame with a whole prefix
DeclaredLength(frame) == UnpackLE(frame.prefix)

\* a framing error: a short prefix, a declared length over 1 MiB, or fewer
\* payload bytes than declared
FramingError(frame) ==
    \/ Len(frame.prefix) < 4
    \/ DeclaredLength(frame) > 1048576
    \/ frame.avail < DeclaredLength(frame)

\* the loop ended at the last read: nothing was handled for it, nothing is being
\* sent for it and no further frame is read
EndedAtRead ==
    /\ rd.result = "none" /\ rd.exit = "eof"
    /\ pc["main"] = "exit"
    /\ env["main"] = NoEnv
    /\ rd.handled = nread - 1

\* C12: a framing error on the last frame read made read_native_message return
\* None and the main loop end without handling a message and without an
\* envelope; for an oversized length no payload byte was read; a frame of
\* exactly 1048576 bytes holding an envelope is accepted.
C12_FramingErrorEndsLoop ==
    rd.result # "nothing" =>
        /\ FramingError(rd.frame) => EndedAtRead
        /\ (Len(rd.frame.prefix) = 4 /\ DeclaredLength(rd.frame) > 1048576)
               => rd.payload_read = 0
        /\ (/\ Len(rd.frame.prefix) = 4 /\ DeclaredLength(rd.frame) = 1048576
            /\ rd.frame.avail >= 1048576 /\ rd.frame.content.kind = "object")
               => rd.result = "message"

\* a second frame declaring 1048577 bytes ended the loop after a first message
\* had been handled
C12_Witness ==
    /\ nread = 2 /\ rd.handled = 1
    /\ Len(rd.frame.prefix) = 4 /\ DeclaredLength(rd.frame) = 1048577
    /\ rd.frame.avail = 1048576
    /\ EndedAtRead /\ rd.payload_read = 0


\* the last frame read was framed correctly but holds no envelope: bytes that are
\* not UTF-8, text that is not JSON, or a JSON value that is not an object
Undecodable(frame) ==
    /\ ~FramingError(frame)
    /\ \/ frame.content.kind \in {"bad_utf8", "bad_json", "array", "null"}
       \/ DeclaredLength(frame) = 0

\* C13: a correctly framed payload that cannot be decoded into an envelope is
\* treated as the end of the stream: read_native_message returned None, the main
\* loop ended, no envelope was handed to the channel and no later frame is read.
C13_DecodeErrorEndsLoop ==
    (rd.result # "nothing" /\ Undecodable(rd.frame)) => EndedAtRead

\* a second frame holding a JSON array ended the loop after a first message had
\* been handled and answered
C13_Witness ==
    /\ nread = 2 /\ rd.handled = 1 /\ Len(outbound) = 1
    /\ ~FramingError(rd.frame) /\ rd.frame.content.kind = "array"
    /\ DeclaredLength(rd.frame) = 20
    /\ EndedAtRead


\* the engine state, the task queue, the stream sessions, the pattern detector
\* state and the channel
SessionState == << hostOnlyVars, stitchVars, detVars, patVars, sys_stdout, lock, outbound >>

\* handle_message is entered with a message whose type is a string that is none
\* of the nine recognized types
UnknownTypeAtHand ==
    /\ pc["main"] = "handle"
    /\ m.op \notin {"init", "transcribe", "reset", "ping", "shutdown",
                    "init_patterns", "learn_pattern", "detect", "reset_patterns"}
    /\ m.op # "[list]"

\* C14: a message whose type is none of the nine recognized types is answered
\* with one error envelope whose message contains the type, the host state is
\* left as it was, and the main loop goes on (to the send, then to the next read).
C14_UnknownTypeAnswered ==
    [][UnknownTypeAtHand =>
          /\ env'["main"].type = "error"
          /\ env'["main"].msg[2] = m.op
          /\ pc'["main"] = "send"
          /\ UNCHANGED SessionState]_vars

\* the error naming "frobnicate" is on the channel and the loop has read and
\* handled a second message
C14_Witness ==
    /\ Len(outbound) >= 1
    /\ outbound[1].type = "error"
    /\ outbound[1].msg = << "Unknown message type: ", "frobnicate" >>
    /\ nread = 2 /\ rd.handled = 2


\* C15: a shutdown message is not answered and ends the main loop: once it is
\* handled the loop is over (no further message is read or handled) and nothing
\* is handed to the channel for it; the worker and the loaders are not waited
\* for, whatever they are doing and whatever is still queued.
C15_ShutdownEndsLoop ==
    m.op = "shutdown" => (pc["main"] = "exit" /\ env["main"] = NoEnv)

\* the loop ended on shutdown while a task was still in the queue and the worker
\* was in the middle of another one
C15_Witness ==
    /\ m.op = "shutdown" /\ pc["main"] = "exit"
    /\ queue # <<>>
    /\ pc["worker"] = "transcribe"


MaxFpLen == 3
MaxOffset == 2

\* bits of a frame
FrameBits == 32

MaxInt32 == 2147483647

\* int32 frames: no bit, every bit (the sign bit among them), every bit but the
\* sign bit
FrameVals == {0, 0 - 1, MaxInt32}

RECURSIVE SeqsUpTo(_, _)
SeqsUpTo(S, n) ==
    IF n = 0 THEN {<<>>}
    ELSE LET shorter == SeqsUpTo(S, n - 1)
         IN  shorter \cup {Append(q, x) : q \in {r \in shorter : Len(r) = n - 1}, x \in S}

Fingerprints == SeqsUpTo(FrameVals, MaxFpLen)

\* ones in the binary numeral of a natural number
RECURSIVE PopCount(_)
PopCount(n) == IF n = 0 THEN 0 ELSE (n % 2) + PopCount(n \div 2)

\* ones at the low end of a natural number
RECURSIVE TrailingOnes(_)
TrailingOnes(n) == IF n % 2 = 0 THEN 0 ELSE 1 + TrailingOnes(n \div 2)

\* the bitwise complement of an int32, ~x = -x - 1, within int32 for every x
Complement(x) == IF x >= 0 THEN (0 - x) - 1 ELSE 0 - (x + 1)

\* the number of set bits among the 32 bits of an int32 in two's complement
PopCount32(x) == IF x >= 0 THEN PopCount(x) ELSE FrameBits - PopCount(Complement(x))

\* bin(x).count('1'): bin writes a negative x as '-0b' and the numeral of its
\* magnitude.  The magnitude of a negative x is Complement(x) + 1, and adding one
\* clears the trailing ones and sets the bit above them.
BinCountOnes(x) ==
    IF x >= 0 THEN PopCount(x)
    ELSE PopCount(Complement(x)) - TrailingOnes(Complement(x)) + 1

\* xor of two natural numbers
RECURSIVE XorNat(_, _)
XorNat(a, b) ==
    IF a = 0 THEN b
    ELSE IF b = 0 THEN a
    ELSE (((a % 2) + (b % 2)) % 2) + 2 * XorNat(a \div 2, b \div 2)

\* np.bitwise_xor of two int32: a ^ ~b = ~(a ^ b) and ~a ^ ~b = a ^ b
BitwiseXor(x, y) ==
    IF x >= 0 /\ y >= 0 THEN XorNat(x, y)
    ELSE IF x >= 0 THEN Complement(XorNat(x, Complement(y)))
    ELSE IF y >= 0 THEN Complement(XorNat(Complement(x), y))
    ELSE XorNat(Complement(x), Complement(y))

\* an index of a Python slice brought into 0..n
SliceIndex(i, n) == IF i < 0 THEN (IF i + n < 0 THEN 0 ELSE i + n) ELSE (IF i > n THEN n ELSE i)

\* seq[start:stop]
Slice(seq, start, stop) ==
    SubSeq(seq, SliceIndex(start, Len(seq)) + 1, SliceIndex(stop, Len(seq)))

\* f1 of one offset, before the cut to min_len
AlignedFirst(fp1, offset) ==
    IF offset < 0 THEN Slice(fp1, 0 - offset, Len(fp1))
    ELSE IF offset > 0 THEN Slice(fp1, 0, Len(fp1) - offset)
    ELSE fp1

\* f2 of an offset above zero read one frame late
AlignedSecondLate(fp2, offset, len_f1) ==
    IF offset < 0 THEN Slice(fp2, 0, len_f1)
    ELSE Slice(fp2, offset + 1, offset + 1 + len_f1)

\* f2 of one offset, before the cut to min_len
AlignedSecond(fp2, offset, len_f1) ==
    IF offset < 0 THEN Slice(fp2, 0, len_f1)
    ELSE Slice(fp2, offset, offset + len_f1)

\* min_len of one offset
MinLen(fp1, fp2, offset) ==
    LET f1 == AlignedFirst(fp1, offset)
        f2 == AlignedSecond(fp2, offset, Len(f1))
    IN  IF Len(f1) < Len(f2) THEN Len(f1) ELSE Len(f2)

\* diff_bits of the first n aligned frame pairs
RECURSIVE DiffBits(_, _, _)
DiffBits(f1, f2, n) ==
    IF n = 0 THEN 0
    ELSE DiffBits(f1, f2, n - 1) + BinCountOnes(BitwiseXor(f1[n], f2[n]))

\* similarity = 1.0 - diff_bits / total_bits of one offset with min_len > 0
Similarity(fp1, fp2, offset) ==
    LET f1         == AlignedFirst(fp1, offset)
        f2         == AlignedSecond(fp2, offset, Len(f1))
        min_len    == MinLen(fp1, fp2, offset)
        total_bits == min_len * FrameBits
    IN  << total_bits - DiffBits(f1, f2, min_len), total_bits >>

\* p > q for two fractions
Greater(p, q) == p[1] * q[2] > q[1] * p[2]

\* if similarity > best_score
Better(similarity, best_score) == Greater(similarity, best_score)

\* the loop over range(-max_offset, max_offset + 1) from one offset on
RECURSIVE SearchFrom(_, _, _, _, _)
SearchFrom(fp1, fp2, offset, max_offset, best) ==
    IF offset > max_offset THEN best
    ELSE IF MinLen(fp1, fp2, offset) = 0
         THEN SearchFrom(fp1, fp2, offset + 1, max_offset, best)
    ELSE LET similarity == Similarity(fp1, fp2, offset)
         IN  SearchFrom(fp1, fp2, offset + 1, max_offset,
                        IF Better(similarity, best.score)
                        THEN [score |-> similarity, offset |-> offset]
                        ELSE best)

\* the offsets whose similarity the loop computes
TriedOffsets(fp1, fp2, max_offset) ==
    IF fp1 = <<>> \/ fp2 = <<>> THEN {}
    ELSE {o \in (0 - max_offset)..max_offset : MinLen(fp1, fp2, o) > 0}

\* match_fingerprint(fp1, fp2, max_offset)
MatchFingerprint(fp1, fp2, max_offset) ==
    IF fp1 = <<>> \/ fp2 = <<>> THEN [score |-> <<0, 1>>, offset |-> 0]
    ELSE SearchFrom(fp1, fp2, 0 - max_offset, max_offset, [score |-> <<0, 1>>, offset |-> 0])

\* the arguments of the call
MatchInit ==
    fpm \in {[fp1 |-> a, fp2 |-> b, max_offset |-> k, score |-> <<0, 1>>, offset |-> 0,
              similarity |-> [o \in {} |-> <<0, 1>>], calls |-> 0] :
             a \in Fingerprints, b \in Fingerprints, k \in 0..MaxOffset}

\* the call returns
MatchCall ==
    /\ fpm.calls = 0
    /\ LET best == MatchFingerprint(fpm.fp1, fpm.fp2, fpm.max_offset)
       IN  fpm' = [fpm EXCEPT !.score = best.score,
                              !.offset = best.offset,
                              !.similarity = [o \in TriedOffsets(fpm.fp1, fpm.fp2, fpm.max_offset)
                                                |-> Similarity(fpm.fp1, fpm.fp2, o)],
                              !.calls = 1]
    /\ UNCHANGED << hostVars, stitchVars, detVars, patVars, rd, qe, lp >>

MatchNext == MatchCall

InitMatch == HostInit /\ StitchIdle /\ DetectIdle /\ PatIdle /\ ReadIdle /\ QuantIdle /\ LearnIdle
             /\ MatchInit

SpecMatch == InitMatch /\ [][MatchNext]_vars

\* the similarity of Contract A for one offset: one minus the share of differing
\* bits among the aligned frames, each frame 32 bits wide
RECURSIVE HammingBits(_, _, _)
HammingBits(f1, f2, n) ==
    IF n = 0 THEN 0
    ELSE HammingBits(f1, f2, n - 1) + PopCount32(BitwiseXor(f1[n], f2[n]))

HammingSimilarity(fp1, fp2, offset) ==
    LET f1      == AlignedFirst(fp1, offset)
        f2      == AlignedSecond(fp2, offset, Len(f1))
        min_len == MinLen(fp1, fp2, offset)
    IN  << min_len * FrameBits - HammingBits(f1, f2, min_len), min_len * FrameBits >>

\* two fractions of the same value
SameValue(p, q) == p[1] * q[2] = q[1] * p[2]

\* C17: the similarity match_fingerprint computes for an offset is one minus the
\* number of differing bits (the 32-bit population count of each XOR, summed)
\* over 32 times the number of aligned frames, whatever the int32 frames are.
C17_SimilarityIsHamming ==
    fpm.calls = 1 =>
        \A o \in DOMAIN fpm.similarity :
            SameValue(fpm.similarity[o], HammingSimilarity(fpm.fp1, fpm.fp2, o))

\* C18: matching a non-empty fingerprint against itself with max_offset 0
\* returns the score 1.0 and the offset 0.
C18_SelfMatchPerfect ==
    (fpm.calls = 1 /\ fpm.fp1 # <<>> /\ fpm.fp2 = fpm.fp1 /\ fpm.max_offset = 0) =>
        (SameValue(fpm.score, <<1, 1>>) /\ fpm.offset = 0)

\* a fingerprint of three frames, one of them with the sign bit, matched against
\* itself
C18_Witness ==
    /\ fpm.calls = 1 /\ fpm.max_offset = 0
    /\ fpm.fp1 = << 0 - 1, 0, MaxInt32 >> /\ fpm.fp2 = fpm.fp1
    /\ fpm.score[1] = fpm.score[2] /\ fpm.offset = 0

\* the offsets of the search range whose alignment is not empty
AlignedOffsets(fp1, fp2, max_offset) ==
    {o \in (0 - max_offset)..max_offset : MinLen(fp1, fp2, o) > 0}

\* C19: match_fingerprint returns the largest similarity over the offsets of
\* [-max_offset, max_offset] with a non-empty alignment and the smallest offset
\* that attains it; the offset is in the range and the score in [0, 1]; an empty
\* fingerprint gives (0.0, 0).
C19_BestOverOffsets ==
    fpm.calls = 1 =>
        IF fpm.fp1 = <<>> \/ fpm.fp2 = <<>>
        THEN fpm.score[1] = 0 /\ fpm.offset = 0
        ELSE LET offsets == AlignedOffsets(fpm.fp1, fpm.fp2, fpm.max_offset)
                 sim(o)  == HammingSimilarity(fpm.fp1, fpm.fp2, o)
             IN  /\ fpm.offset \in offsets
                 /\ SameValue(fpm.score, sim(fpm.offset))
                 /\ \A o \in offsets : ~Greater(sim(o), fpm.score)
                 /\ \A o \in offsets : SameValue(sim(o), fpm.score) => fpm.offset <= o
                 /\ 0 <= fpm.score[1] /\ fpm.score[1] <= fpm.score[2]

\* ---------------------------------------------------------------------------
\* PatternEngine.quantize_embedding, dequantize_embedding and cosine_similarity
\* (pattern_engine.py).  An embedding is a sequence of runs: n components of
\* the value x in a row.  The values are whole numbers of one unit; a vector of
\* fractions is the record of its numerators and their common denominator.
\* ---------------------------------------------------------------------------

\* runs of an embedding drawn, and the components of a long run
MaxRuns == 3
ManyComponents == 400

\* the int8 range the normalized values are scaled to
Int8Max == 127

\* a large value and its negative, half of it, 1/128 of it (once and many
\* times, and negative), zero
Runs ==
    { [x |-> 128, n |-> 1], [x |-> 0 - 128, n |-> 1], [x |-> 64, n |-> 1],
      [x |-> 1, n |-> 1], [x |-> 1, n |-> ManyComponents],
      [x |-> 0 - 1, n |-> ManyComponents], [x |-> 0, n |-> 1] }

Embeddings == SeqsUpTo(Runs, MaxRuns) \ {<<>>}

Abs(x) == IF x < 0 THEN 0 - x ELSE x

\* np.abs(embedding).max() of the first k runs
RECURSIVE MaxAbs(_, _)
MaxAbs(runs, k) ==
    IF k = 0 THEN 0
    ELSE LET rest == MaxAbs(runs, k - 1)
         IN  IF Abs(runs[k].x) > rest THEN Abs(runs[k].x) ELSE rest

\* astype(np.int8) of the fraction num / den: the fraction part is dropped
AsTypeInt8(num, den) == IF num >= 0 THEN num \div den ELSE 0 - ((0 - num) \div den)

\* quantize_embedding(embedding)
QuantizeEmbedding(embedding) ==
    LET max_val == MaxAbs(embedding, Len(embedding))
    IN  [i \in DOMAIN embedding |->
            [x |-> IF max_val > 0
                   THEN AsTypeInt8(embedding[i].x * Int8Max, max_val)
                   ELSE AsTypeInt8(embedding[i].x * Int8Max, 1),
             n |-> embedding[i].n]]

\* dequantize_embedding(quantized): every component over 127.0
DequantizeEmbedding(quantized) == [den |-> Int8Max, runs |-> quantized]

\* np.dot of the numerators of two vectors with the same runs
RECURSIVE Dot(_, _, _)
Dot(r1, r2, k) ==
    IF k = 0 THEN 0 ELSE Dot(r1, r2, k - 1) + r1[k].n * r1[k].x * r2[k].x

\* cosine_similarity(emb1, emb2): np.dot and the squares of the two norms, in
\* numerators (the denominators cancel in dot / (norm1 * norm2)); 0.0 when a
\* norm is zero
CosineSimilarity(emb1, emb2) ==
    LET norm1_sq == Dot(emb1.runs, emb1.runs, Len(emb1.runs))
        norm2_sq == Dot(emb2.runs, emb2.runs, Len(emb2.runs))
    IN  IF norm1_sq = 0 \/ norm2_sq = 0
        THEN [dot |-> 0, norm1_sq |-> norm1_sq, norm2_sq |-> norm2_sq]
        ELSE [dot |-> Dot(emb1.runs, emb2.runs, Len(emb1.runs)),
              norm1_sq |-> norm1_sq, norm2_sq |-> norm2_sq]

\* the embedding to quantize
QuantInit ==
    qe \in {[v |-> e, quantized |-> <<>>, dequantized |-> [den |-> 1, runs |-> <<>>],
             similarity |-> [dot |-> 0, norm1_sq |-> 0, norm2_sq |-> 0], calls |-> 0] :
            e \in Embeddings}

QuantQuantize ==
    /\ qe.calls = 0
    /\ qe' = [qe EXCEPT !.quantized = QuantizeEmbedding(qe.v), !.calls = 1]
    /\ UNCHANGED << hostVars, stitchVars, detVars, patVars, rd, fpm, lp >>

QuantDequantize ==
    /\ qe.calls = 1
    /\ qe' = [qe EXCEPT !.dequantized = DequantizeEmbedding(qe.quantized), !.calls = 2]
    /\ UNCHANGED << hostVars, stitchVars, detVars, patVars, rd, fpm, lp >>

QuantCosine ==
    /\ qe.calls = 2
    /\ qe' = [qe EXCEPT !.similarity = CosineSimilarity([den |-> 1, runs |-> qe.v], qe.dequantized),
                        !.calls = 3]
    /\ UNCHANGED << hostVars, stitchVars, detVars, patVars, rd, fpm, lp >>

QuantNext == QuantQuantize \/ QuantDequantize \/ QuantCosine

InitQuant == HostInit /\ StitchIdle /\ DetectIdle /\ PatIdle /\ ReadIdle /\ MatchIdle /\ LearnIdle
             /\ QuantInit

SpecQuant == InitQuant /\ [][QuantNext]_vars

\* a / b >= c / d for natural numbers with b, d > 0, by their continued fractions
RECURSIVE GEFrac(_, _, _, _)
GEFrac(a, b, c, d) ==
    IF (a \div b) # (c \div d) THEN (a \div b) > (c \div d)
    ELSE IF c % d = 0 THEN TRUE
    ELSE IF a % b = 0 THEN FALSE
    ELSE GEFrac(d, c % d, b, a % b)

\* dot / (norm1 * norm2) >= 0.99, as dot^2 * 10000 >= 9801 * norm1^2 * norm2^2
AtLeast99(sim) ==
    /\ sim.dot > 0
    /\ GEFrac(sim.dot * 10000, sim.norm1_sq * 9801, sim.norm2_sq, sim.dot)

\* C20: for every embedding with a non-zero norm the cosine similarity of the
\* embedding and its quantized and dequantized copy is at least 0.99.
C20_QuantizationFidelity ==
    (qe.calls = 3 /\ Dot(qe.v, qe.v, Len(qe.v)) > 0) => AtLeast99(qe.similarity)


-----------------------------------------------------------------------------
(* Further properties of the host *)

\* C21: nothing but protocol frames is ever on the real outbound stream: what an
\* engine constructor prints while a loader thread constructs it goes to a
\* scratch buffer, however the loader threads and the main loop interleave.
C21_OnlyFramesOutbound == \A k \in DOMAIN outbound : outbound[k] # Noise

\* loader thread i has passed sys.stdout = captured_output
Redirected(i) == loader[i].pc \in {"building", "restore", "done"}

\* the ready reply of the init that started loader i is on the real stream,
\* written and flushed
ReadyFlushed(i) ==
    \E k \in DOMAIN outbound :
        /\ outbound[k].type = "ready" /\ outbound[k].id = i
        /\ ~(pc["main"] = "flush" /\ env["main"] = outbound[k])

\* C22: the ready reply to an init has been written and flushed to the outbound
\* channel before the loader thread that init started redirects standard output
\* or begins constructing the engine.
C22_ReadyBeforeRedirect == \A i \in Loaders : Redirected(i) => ReadyFlushed(i)

\* C23: the worker never stalls on engine loading.  For each dequeued task it
\* waits on the loader at most once, that wait always ends (the loader thread
\* has ended or the 60 seconds are over), and a task that was not passed to the
\* engine is answered with an error envelope, after which the worker is through
\* with it, whether or not the loader ever completes.
C23_WorkerNeverStalls ==
    /\ \A id \in DOMAIN task : task[id].joins <= 1
    /\ (Running /\ pc["worker"] = "join") => ENABLED (WorkerJoined \/ WorkerJoinTimeout)
    /\ (Running /\ pc["worker"] = "check") => ENABLED WorkerCheck
    /\ \A id \in DOMAIN task :
           (task[id].st = "done" /\ ~task[id].proc) => task[id].emitted = <<"error">>

\* the worker waited for a loader that is still constructing its engine, gave
\* the task the error envelope and went on to the next task
C23_Witness ==
    \E id \in DOMAIN task :
        /\ task[id].joins = 1 /\ task[id].st = "done"
        /\ task[id].emitted = <<"error">>
        /\ init_thread # 0 /\ loader[init_thread].pc = "building"
        /\ init_error = 0
        /\ w.task.id > id

\* the pattern engine is unavailable: its load failed, or it is absent (never
\* initialized, or still loading after the bounded wait)
PatternEngineUnavailable == pattern_init_error # 0 \/ pattern_engine = 0

\* C24: when the pattern engine is unavailable, handle_detect returns a
\* detections reply with an empty list and an error string, not an error
\* envelope; the detector and its match tracking are neither created nor
\* changed, and the main loop goes on to send the reply.
C24_DetectDegrades ==
    [][(/\ pc["main"] = "decide" /\ pc'["main"] # "decide"
        /\ m.op = "detect" /\ PatternEngineUnavailable) =>
          /\ env'["main"] = Envelope("detections", 0, "not_available")
          /\ pc'["main"] = "send"
          /\ UNCHANGED << pattern_detector, detVars >>]_vars

\* a detect, not the first message of the run, was refused while the loader was
\* still constructing the engine (the bounded wait ran out)
C24_Witness ==
    /\ pc["main"] = "send" /\ env["main"] = Envelope("detections", 0, "not_available")
    /\ m.op = "detect"
    /\ ploader.pc = "building"
    /\ nread >= 2

\* C25: reset_patterns always returns patterns_reset, with or without a
\* detector; it empties the match tracking and leaves the pattern list (and the
\* engine and the detector object) as they are, so a reset with nothing tracked,
\* and so a second reset in a row, changes no state.
C25_ResetPatternsIdempotent ==
    [][(nread' = nread + 1 /\ m'.op = "reset_patterns") =>
          /\ env'["main"] = Envelope("patterns_reset", 0, "")
          /\ pc'["main"] = "send"
          /\ consecutive_matches' = <<>>
          /\ UNCHANGED << patterns, patVars >>
          /\ (consecutive_matches = <<>> => UNCHANGED detVars)]_vars

\* a second reset_patterns in a row is being answered, on a detector that has
\* patterns and had found one before the first reset
C25_Witness ==
    /\ pc["main"] = "send" /\ env["main"] = Envelope("patterns_reset", 0, "")
    /\ Len(outbound) >= 1 /\ outbound[Len(outbound)].type = "patterns_reset"
    /\ pattern_detector /\ patterns # <<>> /\ lastDetections # <<>>
    /\ consecutive_matches = <<>>

-----------------------------------------------------------------------------
(* Further properties of the stitchers *)

\* C26: within a session last_end_time never decreases: after every
\* process_chunk call it is at least what it was before the call, for each of
\* the three stitchers and whatever segments the engine returned.
C26_LastEndTimeMonotone ==
    [][schunks' = schunks + 1 => sst'.last_end_time >= sst.last_end_time]_vars

\* a second chunk of a session whose segments were all dropped left last_end_time
\* where the first chunk had put it
C26_Witness ==
    /\ schunks = 2 /\ Len(sstarts) = 2
    /\ semitted # <<>>
    /\ sst.last_end_time = semitted[Len(semitted)].end
    /\ slog # <<>> /\ \A k \in DOMAIN slog : slog[k].out = <<>>

\* C27: in the overlap-resubmission stitchers (StreamingWhisper,
\* StreamingParakeet) a returned segment is dropped exactly when its adjusted end
\* does not exceed last_end_time by more than 0.3 s, and a segment whose adjusted
\* end does but whose adjusted start is below last_end_time is emitted with its
\* start moved up to last_end_time.
C27_OverlapDropRule ==
    sst.kind \in {"whisper", "parakeet"} =>
        \A e \in DOMAIN slog :
            LET adjusted_start == slog[e].base + slog[e].raw.start
                adjusted_end   == slog[e].base + slog[e].raw.end
                kept           == adjusted_end > slog[e].last_end + Tolerance
            IN  /\ (slog[e].out = <<>>) <=> ~kept
                /\ (kept /\ adjusted_start < slog[e].last_end) =>
                       (slog[e].out # <<>> /\ slog[e].out[1].start = slog[e].last_end)

\* the duplicate relation C28 describes: equal ignoring case, or the first k words
\* of the new text are the last k words of the previous one, k = min(3, word count),
\* one-word texts included
DescribedDuplicate(last_text, text) ==
    LET text_words == LowerText(text)
        last_words == LowerText(last_text)
        k == CheckWords(text_words, last_words)
    IN \/ text_words = last_words
       \/ FirstWords(text_words, k) = LastWords(last_words, k)

\* C28: with a previous text to compare with, StreamingFasterWhisper treats a new
\* segment text (that passed the time filter) as a duplicate, and drops it,
\* exactly when the two texts are equal ignoring case or the first k words of the
\* new text equal the last k words of the previous one, k = min(3, word count),
\* one-word texts included.
C28_DuplicateTest ==
    sst.kind = "faster-whisper" =>
        \A e \in DOMAIN slog :
            (/\ slog[e].prev # <<>>
             /\ slog[e].raw.text # <<>>
             /\ FWPassesTime(slog[e].base + slog[e].raw.end, slog[e].last_end)) =>
                ((slog[e].out = <<>>) <=> DescribedDuplicate(slog[e].prev, slog[e].raw.text))

-----------------------------------------------------------------------------
(* Further properties of the host, continued *)

\* the worker is inside streaming_engine.process_chunk, on the stitcher w.obj
InProcessChunk == pc["worker"] \in {"transcribe", "segs"}

\* C29: the session state of a stitcher (pending_audio, last_end_time, last_text)
\* is written by the transcription worker only: while a process_chunk call is
\* under way, a step of any other thread leaves the state of its stitcher as it is.
C29_OnlyWorkerWritesSession ==
    [][(InProcessChunk /\ w' = w /\ pc'["worker"] = pc["worker"]) =>
            stitch'[w.obj] = stitch[w.obj]]_vars

\* the engine load has ended: an engine is present, or a load error is recorded
EngineSettled == speech_engine # 0 \/ init_error # 0

\* C30: the engine state is written once: once an engine is present or a load
\* error is recorded, no step (a repeated init and its loader included) assigns
\* speech_engine, streaming_engine or _init_error again.
C30_EngineWrittenOnce ==
    [][EngineSettled => UNCHANGED << speech_engine, streaming_engine, init_error >>]_vars

-----------------------------------------------------------------------------
(* Further properties of the pattern detector *)

\* the pattern ids in a detections list
DetectedIds(detections) == {detections[i].pattern_id : i \in DOMAIN detections}

\* the match state of a tracked pattern
MatchState(cm, id) == cm[CHOOSE i \in DOMAIN cm : cm[i].pattern_id = id]

\* the detection of a pattern in a detections list
DetectionOf(detections, id) ==
    detections[CHOOSE i \in DOMAIN detections : detections[i].pattern_id = id]

\* C31: a pattern that is tracked and is detected again in the next processed
\* chunk keeps the start_time of its first detection, and its last_time becomes
\* that chunk's timestamp and its stored detection that chunk's detection.
C31_TrackingKeepsStart ==
    [][dchunks' = dchunks + 1 =>
        \A id \in Tracked(consecutive_matches) \cap DetectedIds(lastDetections') :
            /\ id \in Tracked(consecutive_matches')
            /\ MatchState(consecutive_matches', id).start_time
                   = MatchState(consecutive_matches, id).start_time
            /\ MatchState(consecutive_matches', id).last_time = lastTimestamp'
            /\ MatchState(consecutive_matches', id).detection
                   = DetectionOf(lastDetections', id)]_vars

\* p1 detected at 0.0 and again at 2.0: start_time 0.0, last_time 2.0
C31_Witness ==
    /\ dchunks >= 2 /\ lastTimestamp = 20
    /\ "p1" \in Tracked(consecutive_matches)
    /\ MatchState(consecutive_matches, "p1").start_time = 0
    /\ MatchState(consecutive_matches, "p1").last_time = 20
    /\ MatchState(consecutive_matches, "p1").detection.timestamp = 20

\* C32: the first processed chunk in which a tracked pattern is not detected
\* deletes its match state, so get_confirmed_detections no longer reports it; a
\* detection of a pattern that has no match state starts one whose start_time is
\* that chunk's timestamp.
C32_AbsentDeletesState ==
    [][dchunks' = dchunks + 1 =>
        /\ \A id \in Tracked(consecutive_matches) \ DetectedIds(lastDetections') :
              /\ id \notin Tracked(consecutive_matches')
              /\ \A k \in DOMAIN GetConfirmedDetections(consecutive_matches', lastTimestamp') :
                    GetConfirmedDetections(consecutive_matches', lastTimestamp')[k].pattern_id # id
        /\ \A id \in DetectedIds(lastDetections') \ Tracked(consecutive_matches) :
              /\ id \in Tracked(consecutive_matches')
              /\ MatchState(consecutive_matches', id).start_time = lastTimestamp'
              /\ MatchState(consecutive_matches', id).last_time = lastTimestamp']_vars

\* p1 was tracked, was absent from a chunk, and is detected again at 2.1: its
\* match state starts at 2.1
C32_Witness ==
    /\ dchunks = 3 /\ lastTimestamp = 21
    /\ "p1" \in dcall.lost
    /\ "p1" \in Tracked(consecutive_matches)
    /\ MatchState(consecutive_matches, "p1").start_time = 21

\* C33: every match state has last_time - start_time >= 0, whatever the
\* timestamps of the chunks (timestamps that decrease included).
C33_DurationNonNegative ==
    \A i \in DOMAIN consecutive_matches :
        consecutive_matches[i].last_time - consecutive_matches[i].start_time >= 0

\* C34: one process_chunk call invokes engine.fingerprint at most once and
\* engine.embed at most once, whatever the number of exact and semantic patterns,
\* and invokes neither for a kind of pattern the list does not hold.
C34_OneFingerprintOneEmbed ==
    [][dchunks' = dchunks + 1 =>
        /\ dcall'.fingerprint <= 1
        /\ dcall'.embed <= 1
        /\ (\A i \in DOMAIN patterns : patterns[i].type # "exact") => dcall'.fingerprint = 0
        /\ (\A i \in DOMAIN patterns : patterns[i].type # "semantic") => dcall'.embed = 0]_vars

\* a chunk matched against two exact patterns, both detected: one fingerprint
\* call and no embed call
C34_Witness ==
    /\ dchunks >= 1 /\ patterns = << P2, P3 >>
    /\ DetectedIds(lastDetections) = {"p2", "p3"}
    /\ dcall.fingerprint = 1 /\ dcall.embed = 0

-----------------------------------------------------------------------------
(* Further properties of the host: reset, loaders, repeated init *)

\* the transcribe_ack of task id is on the outbound channel before a
\* reset_complete: the task was enqueued before that reset was handled
EnqueuedBeforeReset(id) ==
    \E a, r \in DOMAIN outbound :
        /\ a < r
        /\ outbound[a].type = "transcribe_ack" /\ outbound[a].id = id
        /\ outbound[r].type = "reset_complete"

\* a step of handle_reset
ResetStep ==
    \/ pc["main"] # "reset" /\ pc'["main"] = "reset"
    \/ pc["main"] = "reset" /\ pc'["main"] # "reset"
    \/ nread' = nread + 1 /\ pc'["main"] = "send" /\ env'["main"].type = "reset_complete"

\* C35: a reset cancels nothing: no step of handle_reset changes the task queue,
\* the task the worker holds or where the worker is, and with or without a reset
\* the worker can take the next task off a non-empty queue and an inference call
\* under way can run to its end and return.
C35_ResetCancelsNothing ==
    [][/\ ResetStep => /\ UNCHANGED << queue, task, w >>
                       /\ pc'["worker"] = pc["worker"]
                       /\ env'["worker"] = env["worker"]
       /\ (Running /\ pc["worker"] = "get" /\ queue # <<>>) => ENABLED WorkerGet
       /\ (Running /\ pc["worker"] = "transcribe")
             => ENABLED (\E segs \in HostResults : WorkerTranscribe(segs))
       /\ (Running /\ pc["worker"] = "segs") => ENABLED (WorkerSeg \/ WorkerReturn)]_vars

\* a task enqueued before a reset was handled is answered with a transcription
\* after the reset_complete
C35_Witness ==
    \E id \in DOMAIN task :
        /\ EnqueuedBeforeReset(id)
        /\ task[id].st = "done" /\ task[id].emitted = <<"transcription">>
        /\ \E r, t \in DOMAIN outbound :
              /\ r < t /\ outbound[r].type = "reset_complete"
              /\ outbound[t].type = "transcription" /\ outbound[t].id = id

\* C36: every envelope handed to send_native_message is written to the real
\* outbound stream, also while a loader has standard output redirected: the step
\* that leaves the send appends the envelope to the channel.
C36_NoReplyLostWhileLoading ==
    [][\A t \in Threads :
          (pc[t] = "send" /\ pc'[t] # "send") => outbound' = Append(outbound, env[t])]_vars

\* every loader thread that was started has ended
AllLoadersFinished ==
    /\ \E i \in Loaders : loader[i].pc = "done"
    /\ \A i \in Loaders : loader[i].pc \in {"unstarted", "done"}

\* C37: once every loader thread that was started has ended, with an engine or
\* with an error, sys.stdout is the real protocol stream again, in every
\* interleaving of the loaders.
C37_StdoutRestored == AllLoadersFinished => sys_stdout = 0

\* the load of an earlier init failed and the load of a later init succeeded,
\* and no loader is running
RecoveredByLaterInit ==
    /\ AllLoadersFinished
    /\ init_error # 0 /\ streaming_engine # 0
    /\ streaming_engine > init_error

\* C38: after an init whose load failed and a later init whose load succeeded,
\* with no loader running, the worker passes the task it holds to process_chunk
\* instead of answering it with the initialization-failed error.
C38_LaterInitRecovers ==
    [][(RecoveredByLaterInit /\ pc["worker"] = "check" /\ pc'["worker"] # "check")
          => pc'["worker"] = "transcribe"]_vars

\* every loader that was started has ended, and each ended with an engine
AllLoadersSucceeded == AllLoadersFinished /\ init_error = 0

\* C39: once all loader threads have ended successfully, the engine and the
\* stitcher in use are the ones built for the most recent init (its engine kind
\* and its model/device, the ones the last ready reply reports), whatever the
\* order in which the loaders ended.
C39_LatestInitWins ==
    AllLoadersSucceeded =>
        /\ speech_engine = streaming_engine
        /\ loader[speech_engine].kind = engine_type
        /\ loader[speech_engine].cfg = init_cfg
        /\ stitch[streaming_engine].kind = engine_type

-----------------------------------------------------------------------------
(* handle_learn_pattern: SpecLearn *)

\* learn_pattern messages handled in one run
MaxLearnCalls == 2

\* the request's patternType field: the two documented values, another string,
\* or no field at all
PatternTypeFields == {"exact", "semantic", "fuzzy", "absent"}

\* _pattern_init_error / pattern_engine once the join on the loader is over
EngineStates == {"failed", "none", "ready"}

\* what pattern_engine.fingerprint returns: None, an empty list, a list of frames
FingerprintResults == {"None", "empty", "frames"}

\* what pattern_engine.embed returns: None or an embedding
EmbedResults == {"None", "vector"}

\* 'if fingerprint:'
Truthy(fingerprint) == fingerprint = "frames"

ErrorReply(message) ==
    [type |-> "error", patternType |-> "", keys |-> {}, message |-> message]

LearnedReply(pattern_type, keys) ==
    [type |-> "pattern_learned", patternType |-> pattern_type, keys |-> keys, message |-> ""]

\* handle_learn_pattern: the reply, from the state of the engine, whether
\* decode_audio raises, the patternType field and what fingerprint and embed return
HandleLearnPattern(engine, raises, field, fingerprint, embedding) ==
    IF engine = "failed" THEN ErrorReply("init_failed")
    ELSE IF engine = "none" THEN ErrorReply("not_initialized")
    ELSE IF raises THEN ErrorReply("learn_failed")
    ELSE LET requested == IF field = "absent" THEN "exact" ELSE field
             fingerprinted == requested = "exact" /\ Truthy(fingerprint)
             pattern_type == IF requested = "exact" /\ ~Truthy(fingerprint)
                             THEN "semantic" ELSE requested
             fp_keys == IF fingerprinted THEN {"fingerprint"} ELSE {}
         IN IF embedding # "None"
            THEN LearnedReply(pattern_type, fp_keys \cup {"embedding"})
            ELSE IF pattern_type = "semantic"
                 THEN ErrorReply("no_embedding")
                 ELSE LearnedReply(pattern_type, fp_keys)

\* a learn_pattern message is handled
LearnCall(engine, raises, field, fingerprint, embedding) ==
    /\ lp.calls < MaxLearnCalls
    /\ lp' = [calls |-> lp.calls + 1, patternType |-> field, engine |-> engine,
              raises |-> raises, fingerprint |-> fingerprint, embedding |-> embedding,
              reply |-> HandleLearnPattern(engine, raises, field, fingerprint, embedding)]
    /\ UNCHANGED << hostVars, stitchVars, detVars, patVars, rd, fpm, qe >>

LearnNext ==
    \E engine \in EngineStates, raises \in BOOLEAN, field \in PatternTypeFields,
       fingerprint \in FingerprintResults, embedding \in EmbedResults :
        LearnCall(engine, raises, field, fingerprint, embedding)

InitLearn == Init

SpecLearn == InitLearn /\ [][LearnNext]_vars

\* C40: every pattern_learned reply carries a fingerprint or an embedding: one
\* whose patternType is exact has a fingerprint, one whose patternType is
\* semantic has an embedding, whatever the request's patternType field; when
\* neither can be produced the reply is an error.
C40_LearnedHasPayload ==
    lp.reply.type = "pattern_learned" =>
        /\ lp.reply.keys # {}
        /\ lp.reply.patternType = "exact" => "fingerprint" \in lp.reply.keys
        /\ lp.reply.patternType = "semantic" => "embedding" \in lp.reply.keys


=============================================================================
